---- MODULE Spec2Model ----
(***************************************************************************)
(* Model of the camera inspection component                                *)
(* (src/src/components/CameraInspection.tsx) and of the App shell that     *)
(* mounts it: the per-frame analysis loop (analyzeFrame), the asynchronous *)
(* detector completions, the recording controls and the upload of the      *)
(* recorded video.                                                         *)
(*                                                                         *)
(* Times are performance.now() readings in milliseconds.  Every read of    *)
(* the clock inside one handler returns the same value `now`; the clock    *)
(* moves only by the Advance action.                                       *)
(***************************************************************************)
EXTENDS Integers, Sequences, FiniteSets, TLC

(***************************************************************************)
(* Program constants                                                       *)
(***************************************************************************)
TARGET_DURATION_SECONDS == 30
DETECTION_INTERVAL == 6
DETECTION_INTERVAL_RECORDING == 3
\* literal thresholds of analyzeFrame
MISS_CLEAR_MS == 1000
STALE_CLEAR_MS == 2000
STALE_GATE_MS == 1500
DAMAGE_MOVE_PX == 50
\* literals of detectDamageInVehicleArea and mergeNearbyBoxes
BLOCK_SIZE == 40
MERGE_DISTANCE == 60
SPEED_LIMIT == 600

(***************************************************************************)
(* Bounds of the model.  A specification fixes, in the variable `scope`,   *)
(* how far its environment goes: how often the clock advances, how many    *)
(* ticks run between two resets of the frame counter, how many detect()    *)
(* promises are outstanding at once, how many recordings are made, and     *)
(* which frames and detector results arrive.                               *)
(***************************************************************************)
\* the whole program (Spec)
MaxAdvance == 1
MaxFrames == 6
MaxInFlight == 2
MaxRecordings == 2
\* the analysis loop and the detector cache over a longer time (SpecCache)
CacheAdvance == 5
CacheFrames == 7
CacheInFlight == 2

\* the analysis of single frames: distance zones and speed (SpecFrame)
FrameAdvance == 1
FrameFrames == 13
FrameInFlight == 1
\* the person filter and the damage regions up to the first scan (SpecDamage)
DamageAdvance == 1
DamageFrames == 19

\* recordings longer than the target duration, their stop and upload
\* (SpecCoverage)
CoverageAdvance == 3
CoverageFrames == 3
CoverageInFlight == 1
CoverageRecordings == 2

\* the damage scan of one frame (SpecMerge): ticks up to the one after the
\* first scan, and the number of blocks the scan flags
MergeFrames == 19
MaxBlocks == 4

\* the clock moves in steps drawn from Delays; the first reading is one step
Delays == {500}
ClockStart == CHOOSE d \in Delays : \A e \in Delays : d <= e

(***************************************************************************)
(* Values                                                                  *)
(***************************************************************************)
\* null for Box | null and { x, time } | null
NoBox == [null |-> TRUE]
NoCenter == [null |-> TRUE]

Box(x, y, w, h) == [x |-> x, y |-> y, width |-> w, height |-> h]

\* video frame sizes the capture device may deliver (videoWidth x videoHeight)
FrameSizes == { [width |-> 1000, height |-> 600], [width |-> 600, height |-> 1000] }

\* bounding boxes the detector may return (even widths, so that
\* x + width / 2 is an integer)
WideBox == Box(100, 100, 600, 300)
FarBox == Box(400, 200, 400, 200)
TallBox == Box(300, 50, 200, 400)

Pred(c, b) == [class |-> c, bbox |-> b]

\* lines 716-741: the pairs of diagonal neighbours compared in a block
BlockPairCount == (BLOCK_SIZE - 1) * (BLOCK_SIZE - 1)

\* a confidence is a whole number of 1 / ConfidenceDen: line 752 adds
\* 0.4 = 6120 / 15300, half of totalContrast / (pixelCount * 255) and
\* three tenths of maxDiff / 255, and brightness is a whole number of thirds
ConfidenceDen == 15300 * BlockPairCount

\* a block that the damage scan flags: its offset in the vehicle area and
\* its confidence, given in percent
Flag(bx, by, c) == [bx |-> bx, by |-> by, confidence |-> c * (ConfidenceDen \div 100)]

\* what a scan flags in a frame: nothing, or the first block
DefaultBlocks == { <<>>, << Flag(0, 0, 95) >> }

\* results of model.detect(video): lists of {class, bbox}
Predictions ==
    { <<>>,
      << Pred("person", TallBox) >>,
      << Pred("car", WideBox) >>,
      << Pred("person", TallBox), Pred("truck", FarBox) >>,
      << Pred("car", FarBox), Pred("bus", TallBox) >> }

AllowedClasses == {"car", "truck", "bus", "motorcycle"}

Area(b) == b.width * b.height

\* a property that an object lacks reads as undefined (a class as the
\* string "undefined", which no set of classes holds)
Undefined == [undefined |-> TRUE]

\* reading a property of undefined raises
TypeError == [raised |-> "TypeError"]

\* variant: candidates taller than wide are dropped before the selection
vehicleDetectionsWide(preds) ==
    SelectSeq(preds, LAMBDA p : p.class \in AllowedClasses /\ p.bbox.width >= p.bbox.height)

\* lines 676-678: the predictions whose class is allowed, in their order
vehicleDetections(preds) == SelectSeq(preds, LAMBDA p : p.class \in AllowedClasses)

\* variant: the comparator orders by ascending area
byAreaAscending(a, b) == Area(a.bbox) - Area(b.bbox)

\* lines 680-684: the comparator of the sort, areaB - areaA
byAreaDescending(a, b) == Area(b.bbox) - Area(a.bbox)

\* Array.prototype.sort is stable: p goes behind every element that the
\* comparator does not put after it
RECURSIVE InsertSorted(_, _)
InsertSorted(sorted, p) ==
    IF sorted = <<>> THEN << p >>
    ELSE IF byAreaDescending(Head(sorted), p) <= 0
         THEN << Head(sorted) >> \o InsertSorted(Tail(sorted), p)
         ELSE << p >> \o sorted

RECURSIVE SortFrom(_, _, _)
SortFrom(seq, i, sorted) ==
    IF i > Len(seq) THEN sorted
    ELSE SortFrom(seq, i + 1, InsertSorted(sorted, seq[i]))

\* lines 672-685: selectVehiclePrediction, as the bbox of the prediction it
\* returns (NoBox for null).  The comparator reads bbox[2] of every
\* element of a list of two or more and raises when one has no bbox; a
\* list of one is returned as it is, with the bbox it has or lacks.
selectVehiclePrediction(preds) ==
    LET vehicles == vehicleDetections(preds)
    IN  IF Len(vehicles) = 0 THEN NoBox
        ELSE IF Len(vehicles) = 1 THEN vehicles[1].bbox
        ELSE IF \E k \in 1..Len(vehicles) : vehicles[k].bbox = Undefined THEN TypeError
        ELSE SortFrom(vehicles, 1, <<>>)[1].bbox

\* approximateVehicleBox: the centered fallback box used before the
\* detector is loaded (canvas sizes are multiples of 10)
approximateVehicleBox(canvas) ==
    IF canvas.width = 0 \/ canvas.height = 0 THEN NoBox
    ELSE Box((canvas.width * 1) \div 10,
             (canvas.height * 2) \div 10,
             (canvas.width * 8) \div 10,
             (canvas.height * 6) \div 10)

(***************************************************************************)
(* State                                                                   *)
(***************************************************************************)
VARIABLES
    now,                \* performance.now()
    summary,            \* App: summary !== null (the summary page is shown)
    alertOpen,          \* the modal alert() of uploadAndAnalyze is showing
    hasStarted, isRecording, isAnalyzing, distanceStatus, speedWarning,
    progress,           \* percent * ProgressDen (exact for whole milliseconds)
    startTime,          \* <<>> for null, <<t>> otherwise
    modelState,         \* "loading" | "loaded" (model !== null) | "failed" (modelError)
    vehicleDetected,
    camera,             \* "off" | "pending" | "ready" | "failed" (getUserMedia / play)
    canvas,             \* size of the video frame copied to the canvas
    lastVehicleCenter, lastDetectionBox, frameCounter, lastDetectionTime,
    damageDetections,
    mediaRecorder,      \* mediaRecorderRef: 0 for null, else the recorder's id
    stopping,           \* recorders stopped whose onstop has not run yet
    uploads,            \* blobs whose fetch has not settled yet
    inflight,           \* model.detect() promises not settled yet
    vehicleBox,         \* the box the last tick reported (drawn and measured)
    scope,              \* the bounds of the specification (never changes)
    \* history variables (not program state)
    recordings,         \* number of MediaRecorder objects created so far
    epoch,              \* number of session resets so far
    ev,                 \* the last step taken
    newestCompleted,    \* latest issue time among the detections completed
    boxIssuedAt,        \* issue time of the detection that wrote lastDetectionBox
    staleGated,         \* a tick has gated lastDetectionBox as stale while recording
                        \* and no detection has succeeded since
    recordedChunks,     \* recordedChunksRef.current of every mounted component so
                        \* far, the last one being the one on screen; a chunk is
                        \* named by the recorder whose data it holds
    recorderMount,      \* for every MediaRecorder, the mount whose ref its handlers use
    server              \* server/index.js: for every request received, the position
                        \* of its handler and the responses sent

component == << hasStarted, isRecording, isAnalyzing, distanceStatus, speedWarning,
                progress, startTime, modelState, vehicleDetected, camera, canvas,
                lastVehicleCenter, lastDetectionBox, frameCounter, lastDetectionTime,
                damageDetections, mediaRecorder, inflight, vehicleBox,
                newestCompleted, boxIssuedAt, staleGated >>

vars == << now, summary, alertOpen, component, stopping, uploads, recordings, epoch, ev, scope,
          recordedChunks, recorderMount, server >>

ProgressDen == TARGET_DURATION_SECONDS * 10

Abs(n) == IF n < 0 THEN 0 - n ELSE n

\* the state of a freshly mounted CameraInspection (useState / useRef
\* initial values); mounting starts loadModel
Mounted ==
    /\ hasStarted = FALSE
    /\ isRecording = FALSE
    /\ isAnalyzing = FALSE
    /\ distanceStatus = "no_vehicle"
    /\ speedWarning = FALSE
    /\ progress = 0
    /\ startTime = <<>>
    /\ modelState = "loading"
    /\ vehicleDetected = FALSE
    /\ camera = "off"
    /\ canvas = [width |-> 0, height |-> 0]
    /\ lastVehicleCenter = NoCenter
    /\ lastDetectionBox = NoBox
    /\ frameCounter = 0
    /\ lastDetectionTime = 0
    /\ damageDetections = <<>>
    /\ mediaRecorder = 0
    /\ inflight = {}
    /\ vehicleBox = NoBox
    /\ newestCompleted = 0
    /\ boxIssuedAt = 0
    /\ staleGated = FALSE

\* variant: the next mount takes over the refs of the track state
RemountedKeepingTrack ==
    /\ hasStarted' = FALSE
    /\ isRecording' = FALSE
    /\ isAnalyzing' = FALSE
    /\ distanceStatus' = "no_vehicle"
    /\ speedWarning' = FALSE
    /\ progress' = 0
    /\ startTime' = <<>>
    /\ modelState' = "loading"
    /\ vehicleDetected' = FALSE
    /\ camera' = "off"
    /\ canvas' = [width |-> 0, height |-> 0]
    /\ lastVehicleCenter' = lastVehicleCenter
    /\ lastDetectionBox' = lastDetectionBox
    /\ frameCounter' = 0
    /\ lastDetectionTime' = lastDetectionTime
    /\ damageDetections' = damageDetections
    /\ mediaRecorder' = 0
    /\ inflight' = {}
    /\ vehicleBox' = NoBox
    /\ newestCompleted' = 0
    /\ boxIssuedAt' = 0
    /\ staleGated' = FALSE

\* the same values, as the next state: what the next mount starts from
Remounted ==
    /\ hasStarted' = FALSE
    /\ isRecording' = FALSE
    /\ isAnalyzing' = FALSE
    /\ distanceStatus' = "no_vehicle"
    /\ speedWarning' = FALSE
    /\ progress' = 0
    /\ startTime' = <<>>
    /\ modelState' = "loading"
    /\ vehicleDetected' = FALSE
    /\ camera' = "off"
    /\ canvas' = [width |-> 0, height |-> 0]
    /\ lastVehicleCenter' = NoCenter
    /\ lastDetectionBox' = NoBox
    /\ frameCounter' = 0
    /\ lastDetectionTime' = 0
    /\ damageDetections' = <<>>
    /\ mediaRecorder' = 0
    /\ inflight' = {}
    /\ vehicleBox' = NoBox
    /\ newestCompleted' = 0
    /\ boxIssuedAt' = 0
    /\ staleGated' = FALSE

Start ==
    /\ now = ClockStart
    /\ summary = FALSE
    /\ alertOpen = FALSE
    /\ Mounted
    /\ stopping = {}
    /\ uploads = {}
    /\ recordings = 0
    /\ epoch = 0
    /\ recordedChunks = << <<>> >>
    /\ recorderMount = <<>>
    /\ server = <<>>
    /\ ev = [op |-> "Init"]

Init ==
    /\ Start
    /\ scope = [advance |-> MaxAdvance, frames |-> MaxFrames, inflight |-> MaxInFlight,
                recordings |-> MaxRecordings, preds |-> Predictions, sizes |-> FrameSizes,
                loads |-> {"loaded", "failed"}, delays |-> Delays, blocks |-> DefaultBlocks]

\* the component is on screen and its handlers can run (alert() blocks the
\* event loop until it is dismissed)
Live == ~summary /\ ~alertOpen

(***************************************************************************)
(* The session state of the specification, read off the program state      *)
(***************************************************************************)
SessionState ==
    IF summary THEN "Complete"
    ELSE IF alertOpen THEN "Failed"
    ELSE IF ~hasStarted THEN "Idle"
    ELSE IF isRecording THEN "Recording"
    ELSE IF isAnalyzing \/ stopping # {} \/ uploads # {} THEN "Uploading"
    ELSE "Previewing"

(***************************************************************************)
(* analyzeFrame, one tick of the requestAnimationFrame loop                *)
(***************************************************************************)
\* variant: the preview cadence in every mode
detectionIntervalOfPreview == DETECTION_INTERVAL

\* line 103
detectionInterval == IF isRecording THEN DETECTION_INTERVAL_RECORDING ELSE DETECTION_INTERVAL

\* line 106: a detection is requested on this tick (fc: the incremented counter)
DetectionDue(fc) == modelState = "loaded" /\ fc % detectionInterval = 0

\* variant: the cache is dropped whether recording or not
ShouldClearStaleInAnyMode(box, time) ==
    box # NoBox /\ time > 0 /\ now - time > STALE_CLEAR_MS

\* lines 126-128: the cache is dropped when recording without a recent detection
ShouldClearStale(box, time) ==
    isRecording /\ box # NoBox /\ time > 0 /\ now - time > STALE_CLEAR_MS

\* variant: the gate is applied whether recording or not
StaleInAnyMode(box, time) ==
    box # NoBox /\ time > 0 /\ now - time > STALE_GATE_MS

\* lines 140-146: a cached box that is too old is not used while recording
StaleWhileRecording(box, time) ==
    box # NoBox /\ time > 0 /\ isRecording /\ now - time > STALE_GATE_MS

\* variant: only boxes at least twice as tall as wide are rejected
PersonLikeBelowHalf(box) == box.height > 0 /\ box.width * 2 <= box.height - 1

\* lines 157-158: aspect = width / height < 1.0 (x / 0 is Infinity or NaN,
\* neither of which is < 1.0)
PersonLike(box) == box.height > 0 /\ box.width < box.height

\* variant: the limits themselves are outside the good zone
DistanceOfClosedZones(box, cv) ==
    IF box.width * 100 >= 85 * cv.width THEN "too_close"
    ELSE IF box.width * 100 <= 55 * cv.width THEN "too_far"
    ELSE "ok"

\* lines 179-192: ratio = vehicleBox.width / canvas.width against 0.85 and 0.55
DistanceOf(box, cv) ==
    IF box.width * 100 > 85 * cv.width THEN "too_close"
    ELSE IF box.width * 100 < 55 * cv.width THEN "too_far"
    ELSE "ok"

\* line 199 (box widths are even)
CenterX(box) == box.x + box.width \div 2

\* variant: the limit itself already warns
TooFastAtLimit(centerX, last) ==
    LET dx == Abs(centerX - last.x)
        dtMs == now - last.time
    IN  IF dtMs = 0 THEN dx > 0
        ELSE dx * 1000 >= SPEED_LIMIT * dtMs

\* lines 212-215: speed = dx / dt > 600 with dt = (now - last.time) / 1000;
\* dx / 0 is Infinity for dx > 0 and NaN for dx = 0
TooFast(centerX, last) ==
    LET dx == Abs(centerX - last.x)
        dtMs == now - last.time
    IN  IF dtMs = 0 THEN dx > 0
        ELSE dx * 1000 > SPEED_LIMIT * dtMs

\* variant: the percent is not capped
ProgressAtUncapped(start) == now - start

\* lines 230-233: pct = min(100, elapsed / TARGET_DURATION_SECONDS * 100),
\* kept as pct * ProgressDen = min(100 * ProgressDen, elapsed in ms)
ProgressAt(start) ==
    LET elapsedMs == now - start
    IN  IF elapsedMs > 100 * ProgressDen THEN 100 * ProgressDen ELSE elapsedMs

\* variant: the percent is recomputed whenever a start time is set
ProgressDueAfterStop == startTime # <<>>

\* line 230: the percent is recomputed while recording
ProgressDue == isRecording /\ startTime # <<>>

\* variant: the damage scan runs on every tick that requests a detection
ScanDueEachDetection(fc) == fc % detectionInterval = 0

\* line 171: the damage scan runs every third detection interval
ScanDue(fc) == fc % (detectionInterval * 3) = 0

\* lines 716-717: the blocks of the scan lie inside the vehicle area
FlagsFit(flags, box) ==
    \A i \in 1..Len(flags) :
        /\ flags[i].bx < box.width - BLOCK_SIZE
        /\ flags[i].by < box.height - BLOCK_SIZE

\* variant: the flagged blocks keep the coordinates of the vehicle area
DamageAreasOfArea(flags, box) ==
    [ i \in 1..Len(flags) |->
        [x |-> flags[i].bx, y |-> flags[i].by,
         width |-> BLOCK_SIZE, height |-> BLOCK_SIZE,
         confidence |-> flags[i].confidence] ]

\* lines 754-760: the flagged blocks as damageAreas, in frame coordinates
\* (Math.min(blockSize, width - x) is blockSize for every block of the loop)
DamageAreas(flags, box) ==
    [ i \in 1..Len(flags) |->
        [x |-> box.x + flags[i].bx, y |-> box.y + flags[i].by,
         width |-> BLOCK_SIZE, height |-> BLOCK_SIZE,
         confidence |-> flags[i].confidence] ]

\* variant: centers up to two pixels beyond the merge distance still merge
NearCentersLoose(a, b) ==
    LET dx == (2 * a.x + a.width) - (2 * b.x + b.width)
        dy == (2 * a.y + a.height) - (2 * b.y + b.height)
    IN  dx * dx + dy * dy < 4 * (MERGE_DISTANCE + 2) * (MERGE_DISTANCE + 2)

\* lines 797-803: the centers are less than 60 px apart (coordinates doubled)
NearCenters(a, b) ==
    LET dx == (2 * a.x + a.width) - (2 * b.x + b.width)
        dy == (2 * a.y + a.height) - (2 * b.y + b.height)
    IN  dx * dx + dy * dy < 4 * MERGE_DISTANCE * MERGE_DISTANCE

Min2(a, b) == IF a < b THEN a ELSE b
Max2(a, b) == IF a > b THEN a ELSE b

\* lines 804-815: the union bounding box with the larger confidence
UnionArea(a, b) ==
    LET minX == Min2(a.x, b.x)
        minY == Min2(a.y, b.y)
        maxX == Max2(a.x + a.width, b.x + b.width)
        maxY == Max2(a.y + a.height, b.y + b.height)
    IN  [x |-> minX, y |-> minY, width |-> maxX - minX, height |-> maxY - minY,
         confidence |-> Max2(a.confidence, b.confidence)]

\* variant: a box that was merged into another one is not marked
UsedAfterMergeUnmarked(used, j) == used

\* line 817: used.add(j)
UsedAfterMerge(used, j) == used \cup {j}

\* lines 792-818: the inner loop from index j, growing currentBox
RECURSIVE MergeInto(_, _, _, _)
MergeInto(boxes, currentBox, j, used) ==
    IF j > Len(boxes) THEN [box |-> currentBox, used |-> used]
    ELSE IF j \in used \/ ~NearCenters(currentBox, boxes[j])
         THEN MergeInto(boxes, currentBox, j + 1, used)
         ELSE MergeInto(boxes, UnionArea(currentBox, boxes[j]), j + 1, UsedAfterMerge(used, j))

\* lines 786-821: the outer loop from index i
RECURSIVE MergeFrom(_, _, _)
MergeFrom(boxes, i, used) ==
    IF i > Len(boxes) THEN <<>>
    ELSE IF i \in used THEN MergeFrom(boxes, i + 1, used)
         ELSE LET r == MergeInto(boxes, boxes[i], i + 1, used \cup {i})
              IN  << r.box >> \o MergeFrom(boxes, i + 1, r.used)

mergeNearbyBoxes(boxes) == MergeFrom(boxes, 1, {})

\* lines 766-771: the merged areas as damage detections
detectDamageInVehicleArea(flags, box) ==
    LET merged == mergeNearbyBoxes(DamageAreas(flags, box))
    IN  [ i \in 1..Len(merged) |->
            [box |-> Box(merged[i].x, merged[i].y, merged[i].width, merged[i].height),
             confidence |-> merged[i].confidence, label |-> "DAMAGE"] ]

\* the outcomes of a scan of a frame whose pixels are not modelled: the
\* scan throws and damageDetectionsRef stays (lines 772-774), or it flags
\* one of the block lists of the scope and stores the merged regions
ScanOutcomes(box) ==
    { [threw |-> TRUE, flags |-> <<>>, regions |-> damageDetections] }
    \cup { [threw |-> FALSE, flags |-> f, regions |-> detectDamageInVehicleArea(f, box)] :
              f \in { g \in scope.blocks : FlagsFit(g, box) } }

\* variant: a move of exactly DAMAGE_MOVE_PX already discards the regions
DamageMovedAtLimit(centerX, last) ==
    last # NoCenter /\ Abs(centerX - last.x) >= DAMAGE_MOVE_PX

\* lines 203-208: the vehicle center has moved since the previous sample
DamageMoved(centerX, last) ==
    last # NoCenter /\ Abs(centerX - last.x) > DAMAGE_MOVE_PX

\* variant: a tick without a vehicle forgets the previous sample
CenterClearedWithoutVehicle(vb) ==
    IF vb # NoBox THEN [x |-> CenterX(vb), time |-> now] ELSE NoCenter

\* line 221: lastVehicleCenterRef after the tick (written in the vehicle
\* branch only)
CenterAfterTick(vb) ==
    IF vb # NoBox THEN [x |-> CenterX(vb), time |-> now] ELSE lastVehicleCenter

\* variant: the branch without a vehicle leaves the flag as it is
DetectedKeptWithoutVehicle(vb) == vb # NoBox \/ vehicleDetected

\* lines 196 and 226: setVehicleDetected(true) in the vehicle branch of the
\* tick, setVehicleDetected(false) in the other
DetectedAfterTick(vb) == vb # NoBox

Tick ==
    /\ Live /\ hasStarted /\ camera = "ready"
    /\ frameCounter < scope.frames
    /\ LET fc == frameCounter + 1
           issue == DetectionDue(fc)
           clear == ShouldClearStale(lastDetectionBox, lastDetectionTime)
           box1 == IF clear THEN NoBox ELSE lastDetectionBox
           time1 == IF clear THEN 0 ELSE lastDetectionTime
           cached == IF modelState = "loaded"
                     THEN (IF StaleWhileRecording(box1, time1) THEN NoBox ELSE box1)
                     ELSE approximateVehicleBox(canvas)
           vb == IF cached # NoBox /\ PersonLike(cached) THEN NoBox ELSE cached
           scan == vb # NoBox /\ ScanDue(fc)
       IN  /\ issue => Cardinality(inflight) < scope.inflight
           /\ frameCounter' = fc
           /\ inflight' = IF issue
                          THEN inflight \cup {[at |-> now, ep |-> epoch, n |-> fc]}
                          ELSE inflight
           /\ lastDetectionBox' = box1
           /\ lastDetectionTime' = time1
           /\ boxIssuedAt' = IF clear THEN 0 ELSE boxIssuedAt
           /\ staleGated' = IF box1 = NoBox THEN FALSE
                            ELSE staleGated \/ (modelState = "loaded" /\ StaleWhileRecording(box1, time1))
           /\ vehicleBox' = vb
           /\ \E o \in (IF scan
                         THEN ScanOutcomes(vb)
                         ELSE { [threw |-> FALSE, flags |-> <<>>,
                                 regions |-> damageDetections] }) :
                 /\ damageDetections' =
                        IF vb # NoBox /\ DamageMoved(CenterX(vb), lastVehicleCenter)
                        THEN <<>>
                        ELSE o.regions
                 /\ ev' = [op |-> "Tick", issued |-> issue, cleared |-> clear,
                           candidate |-> cached, prev |-> lastVehicleCenter,
                           scanned |-> scan, threw |-> o.threw, flags |-> o.flags,
                           regions |-> o.regions]
           /\ IF vb # NoBox
              THEN /\ distanceStatus' = DistanceOf(vb, canvas)
                   /\ vehicleDetected' = DetectedAfterTick(vb)
                   /\ speedWarning' = IF lastVehicleCenter # NoCenter
                                      THEN TooFast(CenterX(vb), lastVehicleCenter)
                                      ELSE speedWarning
              ELSE /\ distanceStatus' = "no_vehicle"
                   /\ speedWarning' = FALSE
                   /\ vehicleDetected' = DetectedAfterTick(vb)
           /\ lastVehicleCenter' = CenterAfterTick(vb)
           /\ progress' = IF ProgressDue
                          THEN ProgressAt(startTime[1])
                          ELSE progress
    /\ UNCHANGED << scope, server, recordedChunks, recorderMount, now, summary, alertOpen, hasStarted, isRecording, isAnalyzing,
                    startTime, modelState, camera, canvas, mediaRecorder,
                    stopping, uploads, recordings, epoch, newestCompleted >>

(***************************************************************************)
(* The completion callback of model.detect (lines 107-122)                 *)
(***************************************************************************)
\* variant: the limit itself already clears
MissShouldClearAtLimit(issuedAt, time) == issuedAt - time >= MISS_CLEAR_MS

\* line 118: a miss drops the cached box when the request was issued long
\* enough after the last detection time (issuedAt is the `now` of the tick
\* that made the request)
MissShouldClear(issuedAt, time) == issuedAt - time > MISS_CLEAR_MS

\* variant: the box is written without its time
HitCacheBoxOnly(vehiclePred, issuedAt) ==
    [box |-> vehiclePred, time |-> lastDetectionTime]

\* lines 109-113: the cache after a completion that found a vehicle
HitCache(vehiclePred, issuedAt) == [box |-> vehiclePred, time |-> issuedAt]

\* lines 114-121: the cache after a completion that found none
MissCache(issuedAt) ==
    [box |-> IF MissShouldClear(issuedAt, lastDetectionTime) THEN NoBox ELSE lastDetectionBox,
     time |-> lastDetectionTime]

\* every entry of a detector result lacks its class or its bbox
Malformed(preds) ==
    /\ preds # <<>>
    /\ \A i \in 1..Len(preds) : preds[i].class = "undefined" \/ preds[i].bbox = Undefined

\* the callback raises when selectVehiclePrediction raises (line 108) or
\* when the bbox it destructures is undefined (line 110); the promise is
\* rejected and nothing is written
DetectComplete ==
    /\ Live
    /\ \E d \in inflight, preds \in scope.preds :
          LET vehiclePred == selectVehiclePrediction(preds)
              raised == vehiclePred \in {TypeError, Undefined}
              cache == IF raised
                       THEN [box |-> lastDetectionBox, time |-> lastDetectionTime]
                       ELSE IF vehiclePred # NoBox
                            THEN HitCache(vehiclePred, d.at)
                            ELSE MissCache(d.at)
          IN  /\ inflight' = inflight \ {d}
              /\ lastDetectionBox' = cache.box
              /\ lastDetectionTime' = cache.time
              /\ boxIssuedAt' = IF raised THEN boxIssuedAt
                                ELSE IF vehiclePred # NoBox THEN d.at
                                ELSE IF cache.box = NoBox THEN 0 ELSE boxIssuedAt
              /\ staleGated' = IF raised THEN staleGated
                               ELSE IF vehiclePred # NoBox \/ cache.box = NoBox THEN FALSE
                               ELSE staleGated
              /\ newestCompleted' = IF d.at > newestCompleted THEN d.at ELSE newestCompleted
              /\ ev' = [op |-> IF raised THEN "Raise"
                               ELSE IF vehiclePred # NoBox THEN "Hit" ELSE "Miss",
                        d |-> d, sel |-> vehiclePred,
                        had |-> lastDetectionBox # NoBox,
                        malformed |-> Malformed(preds), preds |-> preds]
    /\ UNCHANGED << scope, server, recordedChunks, recorderMount, now, summary, alertOpen, hasStarted, isRecording, isAnalyzing,
                    distanceStatus, speedWarning, progress, startTime, modelState,
                    vehicleDetected, camera, canvas, lastVehicleCenter, frameCounter,
                    damageDetections, mediaRecorder, vehicleBox, stopping, uploads,
                    recordings, epoch >>

(***************************************************************************)
(* Starting the camera and loading the detector                            *)
(***************************************************************************)
\* beginInspection (the landing page's button); the effect on hasStarted
\* then calls getUserMedia
beginInspection ==
    /\ Live /\ ~hasStarted
    /\ hasStarted' = TRUE
    /\ vehicleDetected' = FALSE
    /\ camera' = "pending"
    /\ ev' = [op |-> "beginInspection"]
    /\ UNCHANGED << scope, server, recordedChunks, recorderMount, now, summary, alertOpen, isRecording, isAnalyzing, distanceStatus,
                    speedWarning, progress, startTime, modelState, canvas,
                    lastVehicleCenter, lastDetectionBox, frameCounter,
                    lastDetectionTime, damageDetections, mediaRecorder, inflight,
                    vehicleBox, newestCompleted, boxIssuedAt, staleGated, stopping, uploads,
                    recordings, epoch >>

\* initCamera: getUserMedia and video.play() resolve; frames arrive
CameraReady ==
    /\ Live /\ camera = "pending"
    /\ \E size \in scope.sizes : canvas' = size
    /\ camera' = "ready"
    /\ ev' = [op |-> "CameraReady"]
    /\ UNCHANGED << scope, server, recordedChunks, recorderMount, now, summary, alertOpen, hasStarted, isRecording, isAnalyzing,
                    distanceStatus, speedWarning, progress, startTime, modelState,
                    vehicleDetected, lastVehicleCenter, lastDetectionBox, frameCounter,
                    lastDetectionTime, damageDetections, mediaRecorder, inflight,
                    vehicleBox, newestCompleted, boxIssuedAt, staleGated, stopping, uploads,
                    recordings, epoch >>

\* initCamera: getUserMedia rejects; the catch block only logs
CameraFailed ==
    /\ Live /\ camera = "pending"
    /\ camera' = "failed"
    /\ ev' = [op |-> "CameraFailed"]
    /\ UNCHANGED << scope, server, recordedChunks, recorderMount, now, summary, alertOpen, hasStarted, isRecording, isAnalyzing,
                    distanceStatus, speedWarning, progress, startTime, modelState,
                    vehicleDetected, canvas, lastVehicleCenter, lastDetectionBox,
                    frameCounter, lastDetectionTime, damageDetections, mediaRecorder,
                    inflight, vehicleBox, newestCompleted, boxIssuedAt, staleGated, stopping,
                    uploads, recordings, epoch >>

\* variant: a failed load is attempted again
LoadPendingOrFailed == modelState \in {"loading", "failed"}

\* lines 247-268: the effect has no dependencies, so cocoSsd.load() is
\* called once for a mounted component and settles once
LoadPending == modelState = "loading"

\* loadModel: cocoSsd.load() resolves (setModel) or rejects (setModelError)
ModelLoaded ==
    /\ Live /\ LoadPending
    /\ \E outcome \in scope.loads :
          /\ modelState' = outcome
          /\ ev' = [op |-> "loadModel", outcome |-> outcome]
    /\ UNCHANGED << scope, server, recordedChunks, recorderMount, now, summary, alertOpen, hasStarted, isRecording, isAnalyzing,
                    distanceStatus, speedWarning, progress, startTime,
                    vehicleDetected, camera, canvas, lastVehicleCenter,
                    lastDetectionBox, frameCounter, lastDetectionTime,
                    damageDetections, mediaRecorder, inflight, vehicleBox,
                    newestCompleted, boxIssuedAt, staleGated, stopping, uploads, recordings,
                    epoch >>

(***************************************************************************)
(* Recording controls                                                      *)
(***************************************************************************)
\* variant: the button is never disabled
StartButtonNeverDisabled == FALSE

\* line 461: the record button is rendered with disabled={!vehicleDetected}
StartButtonDisabled == ~vehicleDetected

\* variant: the percent of the previous recording is kept
ProgressKeptAtStart == progress

\* line 301: setProgress(0)
ProgressAfterStart == 0

\* line 304: the frame counter after startRecording
CounterAfterStart == 0

\* line 303: the detection time after startRecording
DetectionTimeAfterStart == now

\* a click on the record button (shown while !isRecording): nothing when
\* the button is disabled, startRecording otherwise
\* line 291: the recorder's handlers read recordedChunksRef.current, the
\* array that all recorders of the mounted component share
ChunksOfSharedArray(r) == recordedChunks[recorderMount[r]]

\* the recorder that is recording, if any
ActiveRecorder == IF isRecording THEN {mediaRecorder} ELSE {}

\* the array of mount m can still be read: the component is on screen, or
\* one of the recorders is its own (an array that nothing can read any
\* more is written as the empty one)
Reachable(m, recorders) ==
    \/ m = Len(recordedChunks)
    \/ \E r \in recorders : recorderMount[r] = m

\* line 280: recordedChunksRef.current = []
ChunksAfterStart == [recordedChunks EXCEPT ![Len(recordedChunks)] = <<>>]

ClickStart ==
    /\ Live /\ hasStarted /\ ~isRecording
    /\ IF StartButtonDisabled \/ camera # "ready"
       THEN /\ ev' = [op |-> "ClickStart", started |-> FALSE]
            /\ UNCHANGED << isRecording, startTime, progress, lastDetectionTime,
                            frameCounter, mediaRecorder, recordings, epoch,
                            recordedChunks, recorderMount, server >>
       ELSE /\ recordings < scope.recordings
            /\ recordings' = recordings + 1
            /\ mediaRecorder' = recordings + 1
            /\ recordedChunks' = ChunksAfterStart
            /\ recorderMount' = Append(recorderMount, Len(recordedChunks))
            /\ isRecording' = TRUE
            /\ startTime' = << now >>
            /\ progress' = ProgressAfterStart
            /\ lastDetectionTime' = DetectionTimeAfterStart
            /\ frameCounter' = CounterAfterStart
            /\ epoch' = epoch + 1
            /\ ev' = [op |-> "ClickStart", started |-> TRUE]
    /\ UNCHANGED << scope, server, now, summary, alertOpen, hasStarted, isAnalyzing, distanceStatus,
                    speedWarning, modelState, vehicleDetected, camera, canvas,
                    lastVehicleCenter, lastDetectionBox, damageDetections, inflight,
                    vehicleBox, newestCompleted, boxIssuedAt, staleGated, stopping, uploads >>

\* stopRecording (the stop button is shown while isRecording)
stopRecording ==
    /\ Live /\ hasStarted /\ isRecording
    /\ mediaRecorder # 0
    /\ stopping' = stopping \cup {mediaRecorder}
    /\ isRecording' = FALSE
    /\ epoch' = epoch + 1
    /\ ev' = [op |-> "stopRecording"]
    /\ UNCHANGED << scope, server, recordedChunks, recorderMount, now, summary, alertOpen, hasStarted, isAnalyzing, distanceStatus,
                    speedWarning, progress, startTime, modelState, vehicleDetected,
                    camera, canvas, lastVehicleCenter, lastDetectionBox, frameCounter,
                    lastDetectionTime, damageDetections, mediaRecorder, inflight,
                    vehicleBox, newestCompleted, boxIssuedAt, staleGated, uploads, recordings >>

(***************************************************************************)
(* Upload of the recorded video                                            *)
(***************************************************************************)
\* recorder.onstop: the blob is built and uploadAndAnalyze starts the fetch
\* (setIsAnalyzing has no effect on an unmounted component)
RecorderOnStop ==
    /\ ~alertOpen
    /\ \E r \in stopping :
          \* lines 284-288, 291: ondataavailable pushes the recorder's data
          \* (recorder.start() has no timeslice, so there is one chunk, at
          \* the stop), then onstop makes the blob of the array
          LET chunks == Append(ChunksOfSharedArray(r), r)
              m == recorderMount[r]
          IN  /\ stopping' = stopping \ {r}
              /\ uploads' = uploads \cup {r}
              /\ recorderMount' = [recorderMount EXCEPT ![r] = 0]
              /\ recordedChunks' =
                    [recordedChunks EXCEPT ![m] =
                        IF Reachable(m, (stopping \ {r}) \cup ActiveRecorder)
                        THEN chunks ELSE <<>>]
              /\ ev' = [op |-> "onstop", r |-> r, blob |-> chunks]
    /\ isAnalyzing' = IF summary THEN isAnalyzing ELSE TRUE
    /\ UNCHANGED << scope, server, now, summary, alertOpen, hasStarted, isRecording, distanceStatus,
                    speedWarning, progress, startTime, modelState, vehicleDetected,
                    camera, canvas, lastVehicleCenter, lastDetectionBox, frameCounter,
                    lastDetectionTime, damageDetections, mediaRecorder, inflight,
                    vehicleBox, newestCompleted, boxIssuedAt, staleGated, recordings, epoch >>

\* the server is part of the specification (otherwise the answer to a
\* request is any)
ServerModelled == "server" \in DOMAIN scope

\* lines 331-342: what the fetch of blob u can settle with now: "ok" for a
\* response with res.ok, "error" for another response or a rejected fetch
\* (the connection was closed without a response)
FetchOutcomes(u) ==
    IF ~ServerModelled THEN {"ok", "error"}
    ELSE IF u \notin DOMAIN server THEN {}
    ELSE IF server[u].at = "exit" THEN {"error"}
    ELSE IF server[u].responses = <<>> THEN {}
    ELSE IF server[u].responses[1] = 200 THEN {"ok"}
    ELSE {"error"}

\* uploadAndAnalyze, success: onInspectionComplete(data) makes App show the
\* summary, which unmounts CameraInspection.  The effect cleanup stops the
\* camera tracks, which ends a recorder that is still active (its onstop is
\* then pending); detections still outstanding can only write the refs of
\* the unmounted instance, which nothing reads.
UploadSuccess ==
    /\ ~alertOpen
    /\ \E u \in uploads :
          /\ "ok" \in FetchOutcomes(u)
          /\ uploads' = uploads \ {u}
    /\ summary' = TRUE
    /\ stopping' = IF ~summary /\ isRecording THEN stopping \cup {mediaRecorder}
                   ELSE stopping
    /\ Remounted
    /\ epoch' = IF summary THEN epoch ELSE epoch + 1
    /\ recordedChunks' =
          IF summary THEN recordedChunks
          ELSE LET m == Len(recordedChunks)
               IN  Append([recordedChunks EXCEPT ![m] =
                              IF \E r \in stopping \cup ActiveRecorder : recorderMount[r] = m
                              THEN recordedChunks[m] ELSE <<>>],
                          <<>>)
    /\ ev' = [op |-> "UploadSuccess"]
    /\ UNCHANGED << scope, server, recorderMount, now, alertOpen, recordings >>

\* variant: the catch block sends the request again
UploadsRetried(u) == uploads

\* lines 346-364: the catch block sends no request; the failed one is over
UploadsAfterFail(u) == uploads \ {u}

\* uploadAndAnalyze, failure (response not ok, or fetch rejects):
\* setIsAnalyzing(false), then alert(errorMessage)
UploadFail ==
    /\ ~alertOpen
    /\ \E u \in uploads :
          /\ "error" \in FetchOutcomes(u)
          /\ uploads' = UploadsAfterFail(u)
          /\ ev' = [op |-> "UploadFail", u |-> u]
    /\ isAnalyzing' = FALSE
    /\ alertOpen' = TRUE
    /\ UNCHANGED << scope, server, recordedChunks, recorderMount, now, summary, hasStarted, isRecording, distanceStatus,
                    speedWarning, progress, startTime, modelState, vehicleDetected,
                    camera, canvas, lastVehicleCenter, lastDetectionBox, frameCounter,
                    lastDetectionTime, damageDetections, mediaRecorder, inflight,
                    vehicleBox, newestCompleted, boxIssuedAt, staleGated, stopping, recordings,
                    epoch >>

\* the user dismisses the alert
AlertDismiss ==
    /\ alertOpen
    /\ alertOpen' = FALSE
    /\ ev' = [op |-> "AlertDismiss"]
    /\ UNCHANGED << scope, server, recordedChunks, recorderMount, now, summary, component, stopping, uploads, recordings, epoch >>

\* InspectionSummary's restart button: App sets summary to null and mounts
\* a new CameraInspection
Restart ==
    /\ summary /\ ~alertOpen
    /\ summary' = FALSE
    /\ ev' = [op |-> "Restart"]
    /\ UNCHANGED << scope, server, recordedChunks, recorderMount, now, alertOpen, component, stopping, uploads, recordings, epoch >>

(***************************************************************************)
(* The server: app.post('/api/process-video') (server/index.js 227-312)    *)
(***************************************************************************)
\* the handler of request r moves to position at, having sent the
\* responses sent
ServerStep(r, at, sent) ==
    /\ server' = (r :> [at |-> at, responses |-> sent]) @@ server
    /\ UNCHANGED << scope, recordedChunks, recorderMount, now, summary, alertOpen,
                    component, stopping, uploads, recordings, epoch >>

\* lines 227-250, 305: the request of the client arrives with its file (the
\* client always appends 'video'); the handler starts the upload stream to
\* the storage and returns the promise it has made
PostReceived ==
    /\ ServerModelled
    /\ \E r \in uploads :
          /\ r \notin DOMAIN server
          /\ ServerStep(r, "upload_stream", <<>>)
          /\ ev' = [op |-> "PostReceived", r |-> r]

\* lines 244-248: the callback of the upload stream: with an error the
\* promise is rejected, otherwise the analysis is requested
StorageDone ==
    \E r \in DOMAIN server, error \in BOOLEAN :
        /\ server[r].at = "upload_stream"
        /\ ServerStep(r, IF error THEN "rejected" ELSE "analyze", server[r].responses)
        /\ ev' = [op |-> "StorageDone", r |-> r, error |-> error]

\* lines 257-261, 297-300: analyzeVideoWithDeepSeek resolves, or it throws
\* (the request or the parsing of its answer fails) and the promise is
\* rejected
AnalysisDone ==
    \E r \in DOMAIN server, error \in BOOLEAN :
        /\ server[r].at = "analyze"
        /\ ServerStep(r, IF error THEN "rejected" ELSE "save", server[r].responses)
        /\ ev' = [op |-> "AnalysisDone", r |-> r, error |-> error]

\* lines 282-296, 297-300: inspection.save() resolves and res.json sends the
\* result, or it throws and the promise is rejected
SaveDone ==
    \E r \in DOMAIN server, error \in BOOLEAN :
        /\ server[r].at = "save"
        /\ IF error
           THEN ServerStep(r, "rejected", server[r].responses)
           ELSE ServerStep(r, "done", Append(server[r].responses, 200))
        /\ ev' = [op |-> "SaveDone", r |-> r, error |-> error]

\* what becomes of a rejected promise that an async handler has returned:
\* the router passes the error on and the default error handler answers
\* 500 (express 5); nobody handles the rejection and the process exits,
\* which closes the connection (express 4, node 15 and later); or the
\* rejection is only reported (express 4, earlier node)
RejectionOutcomes == {"error_handler", "exit", "ignored"}

\* lines 238, 247, 299, 306-312: the promise is returned without await, so
\* the catch block of the handler does not see its rejection
HandlerRejected ==
    \E r \in DOMAIN server, o \in RejectionOutcomes :
        /\ server[r].at = "rejected"
        /\ IF o = "error_handler"
           THEN ServerStep(r, "done", Append(server[r].responses, 500))
           ELSE ServerStep(r, o, server[r].responses)
        /\ ev' = [op |-> "HandlerRejected", r |-> r, outcome |-> o]

\* time passes
Advance ==
    /\ \E d \in scope.delays :
          /\ now + d <= ClockStart + scope.advance * d
          /\ now' = now + d
    /\ ev' = [op |-> "Advance"]
    /\ UNCHANGED << scope, server, recordedChunks, recorderMount, summary, alertOpen, component, stopping, uploads, recordings, epoch >>

Next ==
    \/ Tick
    \/ DetectComplete
    \/ beginInspection
    \/ CameraReady
    \/ CameraFailed
    \/ ModelLoaded
    \/ ClickStart
    \/ stopRecording
    \/ RecorderOnStop
    \/ UploadSuccess
    \/ UploadFail
    \/ AlertDismiss
    \/ Restart
    \/ Advance

Spec == Init /\ [][Next]_vars

(***************************************************************************)
(* SpecCache: one inspection, from the landing page into its recording,    *)
(* in which the camera delivers landscape frames and the user has not yet  *)
(* stopped the recording; the clock runs past every staleness threshold.   *)
(***************************************************************************)
CachePredictions ==
    { <<>>,
      << Pred("person", TallBox), Pred("car", WideBox) >>,
      << Pred("truck", TallBox) >> }

InitCache ==
    /\ Start
    /\ scope = [advance |-> CacheAdvance, frames |-> CacheFrames,
                inflight |-> CacheInFlight, recordings |-> 1,
                preds |-> CachePredictions,
                sizes |-> { [width |-> 1000, height |-> 600] },
                loads |-> {"loaded"}, delays |-> Delays, blocks |-> DefaultBlocks]

NextCache ==
    \/ Tick
    \/ DetectComplete
    \/ beginInspection
    \/ CameraReady
    \/ ModelLoaded
    \/ ClickStart
    \/ Advance

SpecCache == InitCache /\ [][NextCache]_vars

(***************************************************************************)
(* The analysis of frames in preview (SpecFrame): the camera delivers      *)
(* landscape frames, the detector reports boxes at the limits of the       *)
(* distance zones and boxes that lie a chosen number of pixels apart, and  *)
(* two ticks are 0, 200 or 1000 ms apart.                                  *)
(***************************************************************************)
\* a 400 x 200 box with its center at cx
BoxAt(cx) == Box(cx - 200, 100, 400, 200)

\* a box of width w at the left edge of the frame
BoxOfWidth(w) == Box(0, 100, w, 300)

FrameBoxes ==
    { BoxAt(250), BoxAt(290), BoxAt(370), BoxAt(770),
      BoxOfWidth(850), BoxOfWidth(860), BoxOfWidth(550) }

FramePredictions == { <<>> } \cup { << Pred("car", b) >> : b \in FrameBoxes }

FrameDelays == {200, 1000}

InitFrame ==
    /\ Start
    /\ scope = [advance |-> FrameAdvance, frames |-> FrameFrames,
                inflight |-> FrameInFlight, recordings |-> 0,
                preds |-> FramePredictions,
                sizes |-> { [width |-> 1000, height |-> 600] },
                loads |-> {"loaded"}, delays |-> FrameDelays, blocks |-> DefaultBlocks]

NextFrame ==
    \/ Tick
    \/ DetectComplete
    \/ beginInspection
    \/ CameraReady
    \/ ModelLoaded
    \/ Advance

SpecFrame == InitFrame /\ [][NextFrame]_vars

(***************************************************************************)
(* The preview up to the frames after the first damage scan (SpecDamage):  *)
(* landscape and portrait frames, a detector that reports a person-like    *)
(* box or a vehicle that stands or moves by 50 or by 120 pixels.           *)
(***************************************************************************)
DamageBoxes == { BoxAt(250), BoxAt(300), BoxAt(370), TallBox }

DamagePredictions == { <<>> } \cup { << Pred("car", b) >> : b \in DamageBoxes }

InitDamage ==
    /\ Start
    /\ scope = [advance |-> DamageAdvance, frames |-> DamageFrames,
                inflight |-> FrameInFlight, recordings |-> 0,
                preds |-> DamagePredictions, sizes |-> FrameSizes,
                loads |-> {"loaded"}, delays |-> Delays, blocks |-> DefaultBlocks]

SpecDamage == InitDamage /\ [][NextFrame]_vars

(***************************************************************************)
(* The schedule of the damage scan (SpecScan): a preview and one recording *)
(* of landscape frames, each up to the frame of the second scan; the       *)
(* detector reports nothing or one car.                                    *)
(***************************************************************************)
ScanAdvance == 1
ScanFrames == 18

ScanPredictions == { <<>>, << Pred("car", WideBox) >> }

InitScan ==
    /\ Start
    /\ scope = [advance |-> ScanAdvance, frames |-> ScanFrames,
                inflight |-> 1, recordings |-> 1,
                preds |-> ScanPredictions,
                sizes |-> { [width |-> 1000, height |-> 600] },
                loads |-> {"loaded"}, delays |-> {STALE_CLEAR_MS + 1},
                blocks |-> DefaultBlocks]

SpecScan == InitScan /\ [][NextCache]_vars

(***************************************************************************)
(* Failures (SpecFailure): the camera may fail to start, the detector may  *)
(* fail to load and an upload may fail; a preview and recordings of a few  *)
(* landscape or portrait frames, and a detector that reports one car or entries that   *)
(* lack their class or their bbox.                                         *)
(***************************************************************************)
FailureAdvance == 1
FailureFrames == 4
FailureRecordings == 2
FailureInFlight == 1

\* results of model.detect: a car, an entry without class, a car without
\* bbox, and two cars without bbox
FailurePredictions ==
    { << Pred("car", WideBox) >>,
      << Pred("undefined", WideBox) >>,
      << Pred("car", Undefined) >>,
      << Pred("car", Undefined), Pred("car", Undefined) >> }

InitFailure ==
    /\ Start
    /\ scope = [advance |-> FailureAdvance, frames |-> FailureFrames,
                inflight |-> FailureInFlight, recordings |-> FailureRecordings,
                preds |-> FailurePredictions, sizes |-> FrameSizes,
                loads |-> {"loaded", "failed"}, delays |-> {MISS_CLEAR_MS + 1},
                blocks |-> { <<>> }]

SpecFailure == InitFailure /\ [][Next]_vars

(***************************************************************************)
(* Recordings and their uploads (SpecUpload): the detector is still        *)
(* loading, so every tick of a landscape frame reports the fallback box;   *)
(* recordings are started, stopped and uploaded, uploads succeed or fail,  *)
(* and the summary is left by its restart button.                          *)
(***************************************************************************)
UploadFrames == 2
UploadRecordings == 2

InitUpload ==
    /\ Start
    /\ scope = [advance |-> 0, frames |-> UploadFrames, inflight |-> 0,
                recordings |-> UploadRecordings, preds |-> {},
                sizes |-> { [width |-> 1000, height |-> 600] },
                loads |-> {}, delays |-> Delays, blocks |-> { <<>> }]

NextUpload ==
    \/ Tick
    \/ beginInspection
    \/ CameraReady
    \/ ClickStart
    \/ stopRecording
    \/ RecorderOnStop
    \/ UploadSuccess
    \/ UploadFail
    \/ AlertDismiss
    \/ Restart

SpecUpload == InitUpload /\ [][NextUpload]_vars

(***************************************************************************)
(* The load of the detector (SpecLoad): the load succeeds or fails, before *)
(* or during a preview and a recording of landscape or portrait frames.    *)
(***************************************************************************)
LoadAdvance == 1
LoadFrames == 6

InitLoad ==
    /\ Start
    /\ scope = [advance |-> LoadAdvance, frames |-> LoadFrames,
                inflight |-> 1, recordings |-> 1,
                preds |-> { <<>>, << Pred("car", WideBox) >> }, sizes |-> FrameSizes,
                loads |-> {"loaded", "failed"}, delays |-> Delays,
                blocks |-> { <<>> }]

SpecLoad == InitLoad /\ [][NextCache]_vars

(***************************************************************************)
(* A detection that goes stale during a recording (SpecStale): the clock   *)
(* advances past the gate of the cache, and the recording is stopped and   *)
(* another one started.                                                    *)
(***************************************************************************)
StaleAdvance == 1
StaleFrames == 7
StaleRecordings == 2

InitStale ==
    /\ Start
    /\ scope = [advance |-> StaleAdvance, frames |-> StaleFrames,
                inflight |-> 1, recordings |-> StaleRecordings,
                preds |-> { <<>>, << Pred("car", WideBox) >> },
                sizes |-> { [width |-> 1000, height |-> 600] },
                loads |-> {"loaded"}, delays |-> {STALE_GATE_MS + 1},
                blocks |-> { <<>> }]

SpecStale == InitStale /\ [][Next]_vars

(***************************************************************************)
(* Detections whose largest vehicle is taller than wide (SpecAspect)       *)
(***************************************************************************)
AspectAdvance == 1
AspectFrames == 9

\* a box taller than wide and larger than FarBox
BigTallBox == Box(300, 50, 300, 500)

AspectPredictions ==
    { <<>>,
      << Pred("car", FarBox) >>,
      << Pred("car", FarBox), Pred("bus", BigTallBox) >>,
      << Pred("person", WideBox), Pred("truck", BigTallBox) >> }

InitAspect ==
    /\ Start
    /\ scope = [advance |-> AspectAdvance, frames |-> AspectFrames,
                inflight |-> 1, recordings |-> 1,
                preds |-> AspectPredictions,
                sizes |-> { [width |-> 1000, height |-> 600] },
                loads |-> {"loaded"}, delays |-> Delays, blocks |-> { <<>> }]

SpecAspect == InitAspect /\ [][NextCache]_vars

(***************************************************************************)
(* The upload with the server that answers it (SpecServer, and             *)
(* SpecServerFair for what eventually happens): the recorder delivers its  *)
(* stop event, the request arrives, the storage, the analysis and the      *)
(* database answer or fail, the rejected promise meets its fate and the    *)
(* fetch settles once it can.  The user is not bound to do anything.       *)
(***************************************************************************)
ServerFrames == 4
ServerRecordings == 1

InitServer ==
    /\ Start
    /\ scope = [advance |-> 0, frames |-> ServerFrames, inflight |-> 0,
                recordings |-> ServerRecordings, preds |-> {},
                sizes |-> { [width |-> 1000, height |-> 600] },
                loads |-> {}, delays |-> Delays, blocks |-> { <<>> },
                server |-> TRUE]

NextServer ==
    \/ Tick
    \/ beginInspection
    \/ CameraReady
    \/ ClickStart
    \/ stopRecording
    \/ RecorderOnStop
    \/ PostReceived
    \/ StorageDone
    \/ AnalysisDone
    \/ SaveDone
    \/ HandlerRejected
    \/ UploadSuccess
    \/ UploadFail
    \/ AlertDismiss
    \/ Restart

SpecServer == InitServer /\ [][NextServer]_vars

SpecServerFair ==
    /\ SpecServer
    /\ WF_vars(RecorderOnStop)
    /\ WF_vars(PostReceived)
    /\ WF_vars(StorageDone)
    /\ WF_vars(AnalysisDone)
    /\ WF_vars(SaveDone)
    /\ WF_vars(HandlerRejected)
    /\ WF_vars(UploadSuccess)
    /\ WF_vars(UploadFail)

(***************************************************************************)
(* Recordings that run past the target duration (SpecCoverage): ticks 15 s *)
(* apart, recordings that are stopped, uploaded and followed by another    *)
(* one; the camera works and no upload fails.                              *)
(***************************************************************************)
CoverageDelays == {15000}

CoveragePredictions == { <<>>, << Pred("car", WideBox) >> }

InitCoverage ==
    /\ Start
    /\ scope = [advance |-> CoverageAdvance, frames |-> CoverageFrames,
                inflight |-> CoverageInFlight, recordings |-> CoverageRecordings,
                preds |-> CoveragePredictions,
                sizes |-> { [width |-> 1000, height |-> 600] },
                loads |-> {"loaded"}, delays |-> CoverageDelays, blocks |-> DefaultBlocks]

NextCoverage ==
    \/ Tick
    \/ DetectComplete
    \/ beginInspection
    \/ CameraReady
    \/ ModelLoaded
    \/ ClickStart
    \/ stopRecording
    \/ RecorderOnStop
    \/ UploadSuccess
    \/ Restart
    \/ Advance

SpecCoverage == InitCoverage /\ [][NextCoverage]_vars

(***************************************************************************)
(* The damage scan (SpecMerge): the preview of a landscape frame while    *)
(* the detector is still loading, up to the tick after the first scan; the *)
(* scan flags up to MaxBlocks blocks of the upper left 3 x 3 blocks of the *)
(* vehicle area, in the order of its loops.                                *)
(***************************************************************************)
GridOffsets == {0, BLOCK_SIZE, 2 * BLOCK_SIZE}

\* the position of a block in the order of the loops of lines 716-717
ScanOrder(f) == (f.by \div BLOCK_SIZE) * 3 + f.bx \div BLOCK_SIZE

\* one confidence for each block
GridFlags ==
    { Flag(bx, by, 50 + (((bx \div BLOCK_SIZE) * 20 + (by \div BLOCK_SIZE) * 30) % 50)) :
        bx \in GridOffsets, by \in GridOffsets }

MergeBlocks ==
    { f \in UNION { [1..n -> GridFlags] : n \in 0..MaxBlocks } :
        \A i \in 1..Len(f) : \A j \in 1..Len(f) :
            i < j => ScanOrder(f[i]) < ScanOrder(f[j]) }

InitMerge ==
    /\ Start
    /\ scope = [advance |-> 0, frames |-> MergeFrames, inflight |-> 0,
                recordings |-> 0, preds |-> {},
                sizes |-> { [width |-> 1000, height |-> 600] },
                loads |-> {}, delays |-> Delays, blocks |-> MergeBlocks]

NextMerge ==
    \/ Tick
    \/ beginInspection
    \/ CameraReady

SpecMerge == InitMerge /\ [][NextMerge]_vars

(***************************************************************************)
(* C1.  A click on the record button while the last tick reported no       *)
(* vehicle (vehicleDetected = FALSE) changes nothing of the session, the   *)
(* recording flag, the coverage state or the detector cache, and recording *)
(* starts only from a state in which the last tick reported a vehicle box. *)
(***************************************************************************)
C1_StartNeedsVehicle ==
    [][ /\ (ev'.op = "ClickStart" /\ ~vehicleDetected) =>
              /\ SessionState' = SessionState
              /\ UNCHANGED << isRecording, startTime, progress, lastDetectionBox,
                              lastDetectionTime, frameCounter, mediaRecorder >>
        /\ (isRecording' /\ ~isRecording) =>
              /\ vehicleDetected
              /\ vehicleBox # NoBox
              /\ distanceStatus # "no_vehicle" ]_vars

\* a refused click in Previewing, after a tick that found no vehicle
C1_Witness ==
    /\ ev = [op |-> "ClickStart", started |-> FALSE]
    /\ SessionState = "Previewing"
    /\ camera = "ready" /\ frameCounter > 0
    /\ ~vehicleDetected /\ ~isRecording /\ vehicleBox = NoBox

(***************************************************************************)
(* C2.  The session state changes only along Idle->Previewing,             *)
(* Previewing->Recording, Recording->Uploading, Uploading->Complete,       *)
(* Uploading->Failed, Failed->Previewing and Complete/Failed->Idle; in     *)
(* particular Recording is never entered while an upload is in progress.   *)
(***************************************************************************)
LegalTransitions ==
    { << "Idle", "Previewing" >>, << "Previewing", "Recording" >>,
      << "Recording", "Uploading" >>, << "Uploading", "Complete" >>,
      << "Uploading", "Failed" >>, << "Failed", "Previewing" >>,
      << "Complete", "Idle" >>, << "Failed", "Idle" >> }

C2_LegalTransitionsOnly ==
    [][ \/ SessionState' = SessionState
        \/ << SessionState, SessionState' >> \in LegalTransitions ]_vars

(***************************************************************************)
(* C3.  For a cache that stores a box whose detection time is more than    *)
(* 1500 ms old, a tick while recording reports no vehicle while the box    *)
(* stays stored, and a tick while not recording reports the stored box.    *)
(***************************************************************************)
\* a tick of the loaded detector that finds a box cached for more than
\* STALE_GATE_MS
StaleTick ==
    /\ ev'.op = "Tick"
    /\ modelState = "loaded"
    /\ lastDetectionBox # NoBox
    /\ now - lastDetectionTime > STALE_GATE_MS

C4_NoOlderOverwrite ==
    [][ ev'.op = "Hit" =>
          ~( /\ lastDetectionBox # NoBox
             /\ lastDetectionTime = boxIssuedAt
             /\ ev'.d.at < boxIssuedAt ) ]_vars

\* what the callback does: every completion that found a vehicle writes its
\* own box and its own issue time, whatever has completed before it
C4_LastWriterWins ==
    ev.op = "Hit" =>
        /\ lastDetectionBox = ev.sel /\ ev.sel # NoBox
        /\ lastDetectionTime = ev.d.at

(***************************************************************************)
(* C5.  A completion of a detection issued before the last session reset   *)
(* (recording started or stopped, session restarted) changes neither the   *)
(* cached box nor the detection time.                                      *)
(***************************************************************************)
C5_StaleCompletionIgnored ==
    [][ (ev'.op \in {"Hit", "Miss"} /\ ev'.d.ep # epoch) =>
            UNCHANGED << lastDetectionBox, lastDetectionTime >> ]_vars

(***************************************************************************)
(* C6.  After the user stops recording no tick issues a detection request  *)
(* until Previewing or Recording is entered again: none while Uploading.   *)
(***************************************************************************)
C6_NoDetectionWhileUploading ==
    [][ SessionState = "Uploading" => ~(ev'.op = "Tick" /\ ev'.issued) ]_vars

(***************************************************************************)
(* C7.  The cached box and its timestamp are always replaced together:     *)
(* whenever a box is stored the timestamp is the issue time of the         *)
(* detection that produced it, and no step changes one without the other.  *)
(***************************************************************************)
\* the claim as stated
C7_ReplacedTogether ==
    [][ /\ lastDetectionBox' # NoBox => lastDetectionTime' = boxIssuedAt'
        /\ lastDetectionTime' # lastDetectionTime =>
              (ev'.op = "Hit" \/ lastDetectionBox' # lastDetectionBox)
        /\ lastDetectionBox' # lastDetectionBox =>
              (ev'.op = "Hit" \/ lastDetectionTime' # lastDetectionTime) ]_vars

\* amended: a completion that found a vehicle writes both, and the tick's
\* clear empties both; startRecording alone moves the timestamp of a box it
\* keeps, and a missed detection alone drops the box of a timestamp it
\* keeps; so the timestamp of a stored box is never before the issue time
\* of the detection that produced the box
C7_PartialUpdates ==
    [][ /\ lastDetectionBox' # NoBox =>
              /\ lastDetectionTime' >= boxIssuedAt'
              /\ lastDetectionTime' > 0
        /\ ev'.op = "Hit" =>
              lastDetectionTime' = boxIssuedAt' /\ lastDetectionBox' # NoBox
        /\ (lastDetectionTime' # lastDetectionTime /\ lastDetectionBox' = lastDetectionBox) =>
              \/ ev'.op = "Hit"
              \/ ev'.op = "ClickStart" /\ lastDetectionTime' = now
        /\ (lastDetectionBox' # lastDetectionBox /\ lastDetectionTime' = lastDetectionTime) =>
              \/ ev'.op = "Hit"
              \/ ev'.op = "Miss" /\ lastDetectionBox' = NoBox ]_vars

\* recording has started on a box detected earlier: the timestamp is the
\* start of the recording, not the issue time of the box's detection
C7_Witness ==
    /\ ev.op = "ClickStart" /\ ev.started
    /\ lastDetectionBox # NoBox
    /\ lastDetectionTime = now
    /\ boxIssuedAt < lastDetectionTime

(***************************************************************************)
(* C8.  A completion without a qualifying vehicle clears the cached box    *)
(* only if more than 1000 ms have elapsed since the last detection time;   *)
(* with 1000 ms or less the box and the timestamp stay as they are.  (The  *)
(* code measures the time at the tick that issued the request.)            *)
(***************************************************************************)
C8_MissRule ==
    [][ ev'.op = "Miss" =>
          /\ lastDetectionTime' = lastDetectionTime
          /\ lastDetectionBox' \in {lastDetectionBox, NoBox}
          /\ (lastDetectionBox' # lastDetectionBox) =>
                /\ ev'.d.at - lastDetectionTime > MISS_CLEAR_MS
                /\ now - lastDetectionTime > MISS_CLEAR_MS
                /\ now - boxIssuedAt > MISS_CLEAR_MS
          /\ (now - lastDetectionTime <= MISS_CLEAR_MS) =>
                lastDetectionBox' = lastDetectionBox
          /\ (ev'.d.at - lastDetectionTime <= MISS_CLEAR_MS) =>
                lastDetectionBox' = lastDetectionBox ]_vars

\* a miss that has cleared a stored box
C8_Witness ==
    /\ ev.op = "Miss" /\ ev.had
    /\ lastDetectionBox = NoBox
    /\ ev.d.at - lastDetectionTime > MISS_CLEAR_MS

C10_FirstTickDetects ==
    [][ ( /\ ev'.op = "Tick"
          /\ isRecording /\ frameCounter = 0
          /\ modelState = "loaded" ) => ev'.issued ]_vars

(***************************************************************************)
(* C11.  With the detector loaded a tick requests a detection exactly when *)
(* the incremented frame counter is a multiple of N, N = 6 when not        *)
(* recording and N = 3 when recording; no other tick requests one, and     *)
(* none is requested while the detector is not loaded.                     *)
(***************************************************************************)
C11_Cadence ==
    [][ ev'.op = "Tick" =>
          /\ frameCounter' = frameCounter + 1
          /\ ev'.issued <=>
                /\ modelState = "loaded"
                /\ frameCounter' % (IF isRecording THEN 3 ELSE 6) = 0
          /\ IF ev'.issued
             THEN /\ Cardinality(inflight') = Cardinality(inflight) + 1
                  /\ inflight' \ inflight = {[at |-> now, ep |-> epoch, n |-> frameCounter']}
             ELSE inflight' = inflight ]_vars

\* the third tick of a recording has requested a detection
C11_Witness ==
    /\ ev.op = "Tick" /\ ev.issued
    /\ isRecording /\ modelState = "loaded"
    /\ frameCounter = 3

(***************************************************************************)
(* C12.  Whenever the candidate box of a tick (the cached detection or the *)
(* fallback box) has width / height < 1, the tick reports no box: the      *)
(* distance status is no_vehicle, vehicleDetected is false and the speed   *)
(* warning is cleared.                                                     *)
(***************************************************************************)
C12_PersonRejected ==
    [][ ( /\ ev'.op = "Tick"
          /\ ev'.candidate # NoBox
          /\ ev'.candidate.width < ev'.candidate.height ) =>
            /\ vehicleBox' = NoBox
            /\ distanceStatus' = "no_vehicle"
            /\ ~vehicleDetected'
            /\ ~speedWarning' ]_vars

\* a tick has rejected the tall box that the detector had cached, after a
\* tick that had reported a vehicle
C12_Witness ==
    /\ ev.op = "Tick"
    /\ modelState = "loaded"
    /\ ev.candidate = TallBox /\ lastDetectionBox = TallBox
    /\ ev.prev # NoCenter
    /\ vehicleBox = NoBox /\ distanceStatus = "no_vehicle" /\ ~vehicleDetected

(***************************************************************************)
(* C13.  With r = box.width / frame width of the box a tick reports, the   *)
(* distance status is too_close iff r > 0.85, too_far iff r < 0.55 and ok  *)
(* iff 0.55 <= r <= 0.85; exactly one status is produced, and no_vehicle   *)
(* iff the tick reports no box.                                            *)
(***************************************************************************)
C13_DistanceZones ==
    [][ ev'.op = "Tick" =>
          /\ distanceStatus' \in {"too_close", "too_far", "ok", "no_vehicle"}
          /\ distanceStatus' = "no_vehicle" <=> vehicleBox' = NoBox
          /\ vehicleBox' # NoBox =>
                LET w100 == vehicleBox'.width * 100
                    fw == canvas.width
                IN  /\ distanceStatus' = "too_close" <=> w100 > 85 * fw
                    /\ distanceStatus' = "too_far" <=> w100 < 55 * fw
                    /\ distanceStatus' = "ok" <=> (55 * fw <= w100 /\ w100 <= 85 * fw) ]_vars

\* a box at the upper limit r = 0.85 has been reported as ok
C13_Witness ==
    /\ ev.op = "Tick"
    /\ vehicleBox = BoxOfWidth(850) /\ canvas.width = 1000
    /\ distanceStatus = "ok"

(***************************************************************************)
(* C14.  On a tick that reports a box and has a previous center sample,    *)
(* the speed warning is set iff |centerX - previous centerX| divided by    *)
(* the seconds since the previous sample is strictly greater than 600, and *)
(* is cleared otherwise; only the last pair of samples counts.  (Two       *)
(* samples with the same clock reading: the quotient is Infinity for a     *)
(* move, which warns, and NaN for no move, which does not.)                *)
(***************************************************************************)
C14_SpeedWarning ==
    [][ ( /\ ev'.op = "Tick"
          /\ vehicleBox' # NoBox
          /\ lastVehicleCenter # NoCenter ) =>
            LET dx == Abs((2 * vehicleBox'.x + vehicleBox'.width)
                            - 2 * lastVehicleCenter.x)
                dtMs == now - lastVehicleCenter.time
            IN  /\ dtMs >= 0
                /\ dtMs > 0 => (speedWarning' <=> dx * 1000 > 2 * 600 * dtMs)
                /\ dtMs = 0 => (speedWarning' <=> dx > 0) ]_vars

\* 520 px in 0.2 s has raised the warning
C14_Witness ==
    /\ ev.op = "Tick"
    /\ ev.prev = [x |-> 250, time |-> 500]
    /\ lastVehicleCenter = [x |-> 770, time |-> 700]
    /\ speedWarning

(***************************************************************************)
(* C15.  A tick that reports a box replaces the last center/time pair by   *)
(* its own center and time; a tick that reports none clears the speed      *)
(* warning and leaves the pair as it is.                                   *)
(***************************************************************************)
C15_CenterSample ==
    [][ ev'.op = "Tick" =>
          IF vehicleBox' # NoBox
          THEN /\ 2 * lastVehicleCenter'.x = 2 * vehicleBox'.x + vehicleBox'.width
               /\ lastVehicleCenter'.time = now
          ELSE /\ ~speedWarning'
               /\ lastVehicleCenter' = lastVehicleCenter ]_vars

\* a tick without a vehicle has kept an older sample
C15_Witness ==
    /\ ev.op = "Tick"
    /\ vehicleBox = NoBox /\ ~speedWarning
    /\ lastVehicleCenter # NoCenter
    /\ lastVehicleCenter = ev.prev
    /\ lastVehicleCenter.time < now

(***************************************************************************)
(* C19.  The damage region set is empty at the end of every tick on which  *)
(* the reported center is more than 50 px from the center of the previous  *)
(* sample, also when a damage scan ran earlier in that tick; with 50 px or *)
(* less the invalidation step leaves the set as the scan step left it.     *)
(***************************************************************************)
C19_DamageInvalidation ==
    [][ ( /\ ev'.op = "Tick"
          /\ vehicleBox' # NoBox
          /\ lastVehicleCenter # NoCenter ) =>
            LET dx == Abs((2 * vehicleBox'.x + vehicleBox'.width)
                            - 2 * lastVehicleCenter.x)
            IN  /\ dx > 2 * 50 => damageDetections' = <<>>
                /\ dx <= 2 * 50 =>
                      /\ damageDetections' = ev'.regions
                      /\ ~ev'.scanned => damageDetections' = damageDetections ]_vars

\* a scan has found a region and the same tick has discarded it
C19_Witness ==
    /\ ev.op = "Tick" /\ ev.scanned
    /\ ev.regions # <<>>
    /\ ev.prev # NoCenter
    /\ vehicleBox # NoBox
    /\ damageDetections = <<>>

(***************************************************************************)
(* C16.  During one recording the coverage percent never decreases, lies   *)
(* in [0, 100], equals min(100, elapsed seconds / 30 * 100) after every    *)
(* tick, and is exactly 100 on every tick at 30 s or more.  (progress is   *)
(* the percent times ProgressDen, elapsed times are in ms.)                *)
(***************************************************************************)
C16_CoverageMonotone ==
    [][ (isRecording /\ isRecording') =>
          /\ startTime # <<>> /\ startTime' = startTime
          /\ progress' >= progress
          /\ 0 <= progress' /\ progress' <= 100 * ProgressDen
          /\ ev'.op = "Tick" =>
                LET elapsedMs == now - startTime[1]
                    pct == (elapsedMs * 100 * ProgressDen) \div (30 * 1000)
                IN  /\ progress' = IF pct < 100 * ProgressDen
                                   THEN pct ELSE 100 * ProgressDen
                    /\ elapsedMs >= 30 * 1000 => progress' = 100 * ProgressDen ]_vars

\* a tick more than 30 s after the start has left the percent at 100
C16_Witness ==
    /\ ev.op = "Tick" /\ isRecording
    /\ startTime # <<>>
    /\ now - startTime[1] > 30 * 1000
    /\ progress = 100 * ProgressDen

(***************************************************************************)
(* C17.  After recording has stopped no tick changes the coverage percent: *)
(* it keeps the value of the last recording tick until a new recording     *)
(* starts, which resets it to 0.  (The component that is mounted after an  *)
(* upload has succeeded starts with its own percent, 0.)                   *)
(***************************************************************************)
C17_FrozenAfterStop ==
    [][ /\ (ev'.op = "Tick" /\ ~isRecording) => progress' = progress
        /\ ev'.op = "stopRecording" => progress' = progress
        /\ (ev'.op = "ClickStart" /\ ev'.started) => progress' = 0
        /\ (~isRecording /\ progress' # progress) =>
              \/ ev'.op = "ClickStart" /\ ev'.started
              \/ ev'.op = "UploadSuccess" /\ progress' = 0 ]_vars

\* a tick after the stop, later than the last recording tick, has left the
\* percent where it was
C17_Witness ==
    /\ ev.op = "Tick" /\ ~isRecording
    /\ startTime # <<>>
    /\ progress > 0 /\ progress < 100 * ProgressDen
    /\ now - startTime[1] > progress

(***************************************************************************)
(* C18.  Coverage state exists only while recording: the percent is reset  *)
(* to 0 (and the start timestamp to none) when recording stops, so the     *)
(* percent is 0 in every state in which the session is not recording.      *)
(***************************************************************************)
\* the claim as stated
C18_ZeroUnlessRecording ==
    ~isRecording => (progress = 0 /\ startTime = <<>>)

\* amended: stopRecording leaves the percent and the start timestamp as
\* they are; both are set when a recording starts, and the percent is 0 as
\* long as the mounted component has not recorded
C18_ResetAtStart ==
    [][ /\ ev'.op = "stopRecording" =>
              (~isRecording' /\ UNCHANGED << progress, startTime >>)
        /\ (ev'.op = "ClickStart" /\ ev'.started) =>
              (progress' = 0 /\ startTime' = << now >>)
        /\ startTime' = <<>> => progress' = 0 ]_vars

\* a recording has been stopped and its percent is still shown
C18_Witness ==
    /\ ev.op = "stopRecording"
    /\ ~isRecording
    /\ progress > 0
    /\ startTime # <<>>

(***************************************************************************)
(* C20.  The merge runs to a fixpoint: for every list of flagged blocks no *)
(* two regions of the output of mergeNearbyBoxes have their centers within *)
(* 60 px of each other, and every output region is the union bounding box  *)
(* of the blocks merged into it, with the largest of their confidences.    *)
(***************************************************************************)
MinOf(T) == CHOOSE m \in T : \A n \in T : m <= n
MaxOf(T) == CHOOSE m \in T : \A n \in T : m >= n

\* region r is the bounding box of the areas with indices in S, with the
\* largest confidence among them
IsUnionOf(r, areas, S) ==
    LET left == MinOf({ areas[i].x : i \in S })
        top == MinOf({ areas[i].y : i \in S })
        right == MaxOf({ areas[i].x + areas[i].width : i \in S })
        bottom == MaxOf({ areas[i].y + areas[i].height : i \in S })
    IN  /\ r.box = Box(left, top, right - left, bottom - top)
        /\ r.confidence = MaxOf({ areas[i].confidence : i \in S })

C20_MergeFixpoint ==
    (ev.op = "Tick" /\ ev.scanned /\ ~ev.threw) =>
        LET areas == DamageAreas(ev.flags, vehicleBox)
            out == ev.regions
        IN  /\ \A i \in 1..Len(out) : \A j \in 1..Len(out) :
                  i < j => ~NearCenters(out[i].box, out[j].box)
            /\ \A i \in 1..Len(out) :
                  \E S \in (SUBSET (1..Len(areas))) \ {{}} : IsUnionOf(out[i], areas, S)

\* what the single pass does guarantee: every region is such a union, and
\* no later region starts from a block whose center was within 60 px of the
\* first block of an earlier region
C20_SinglePass ==
    (ev.op = "Tick" /\ ev.scanned /\ ~ev.threw) =>
        LET areas == DamageAreas(ev.flags, vehicleBox)
            out == ev.regions
        IN  /\ Len(out) <= Len(areas)
            /\ (Len(areas) > 0 => Len(out) > 0)
            /\ \A i \in 1..Len(out) :
                  \E S \in (SUBSET (1..Len(areas))) \ {{}} : IsUnionOf(out[i], areas, S)

(***************************************************************************)
(* The pure functions of the scanner and of the detector (SpecFunctions):  *)
(* the initial state holds one input of a bounded set in ev, and the one   *)
(* step applies the function to it and records the result in ev; the       *)
(* component is not started.                                               *)
(***************************************************************************)
MaxOffset == 61

\* a flagged block as the merge step receives it (lines 754-760), its
\* confidence given in percent
BlockAt(x, y, c) ==
    [x |-> x, y |-> y, width |-> BLOCK_SIZE, height |-> BLOCK_SIZE,
     confidence |-> c * (ConfidenceDen \div 100)]

\* two blocks whose centers are (dx, dy) apart
BlockPairs ==
    { << BlockAt(100, 100, 50), BlockAt(100 + dx, 100 + dy, 80) >> :
        dx \in 0..MaxOffset, dy \in {0, 48} }

\* mergeNearbyBoxes applied to a pair of blocks
mergePair ==
    /\ ev.op = "Input" /\ ev.fn = "mergeNearbyBoxes"
    /\ ev' = [op |-> "mergeNearbyBoxes", boxes |-> ev.boxes,
              merged |-> mergeNearbyBoxes(ev.boxes)]
    /\ UNCHANGED << now, summary, alertOpen, component, stopping, uploads,
                    recordings, epoch, scope,
                    recordedChunks, recorderMount, server >>

\* the length of the lists of blocks given to mergeNearbyBoxes
MaxMergeInputs == 3

\* blocks in a row, 40, 80 and 160 px from the first, with two confidences
MergeChoices ==
    { BlockAt(x, 100, c) : x \in {100, 140, 180, 260}, c \in {50, 80} }

MergeLists == UNION { [1..n -> MergeChoices] : n \in 0..MaxMergeInputs }

\* mergeNearbyBoxes applied to a list of blocks
mergeList ==
    /\ ev.op = "Input" /\ ev.fn = "mergeNearbyBoxes(list)"
    /\ ev' = [op |-> "mergeNearbyBoxes(list)", boxes |-> ev.boxes,
              merged |-> mergeNearbyBoxes(ev.boxes)]
    /\ UNCHANGED << now, summary, alertOpen, component, stopping, uploads,
                    recordings, epoch, scope,
                    recordedChunks, recorderMount, server >>

\* the block columns of the scanned vehicle areas
MaxBlockColumns == 2

Levels == {0, 100, 255}

\* the colours of the pixels
Colours == [r : Levels, g : Levels, b : Levels]

Black == [r |-> 0, g |-> 0, b |-> 0]
White == [r |-> 255, g |-> 255, b |-> 255]

\* the pixels of a vehicle area (imageData, line 696): one colour, columns
\* that alternate between two colours, or columns that alternate between
\* black and one colour in the first block column and another in the rest
Images ==
    { [kind |-> "uniform", a |-> c, b |-> c] : c \in Colours }
    \cup { [kind |-> "stripes", a |-> c, b |-> d] : c \in Colours, d \in {Black, White} }
    \cup { [kind |-> "split", a |-> c, b |-> d] :
              c \in Colours, d \in {Black, [r |-> 0, g |-> 100, b |-> 255]} }

\* lines 724-727: data[idx], data[idx + 1], data[idx + 2]
PixelAt(img, x, y) ==
    CASE img.kind = "uniform" -> img.a
      [] img.kind = "stripes" -> IF x % 2 = 0 THEN img.a ELSE img.b
      [] img.kind = "split" -> IF x % 2 = 1 THEN Black
                               ELSE IF x < BLOCK_SIZE THEN img.a ELSE img.b

\* variant: the neighbour's third channel is its blue channel
contrastOfMeans(img, px, py) ==
    LET p == PixelAt(img, px, py)
        q == PixelAt(img, px - 1, py - 1)
    IN  Abs((p.r + p.g + p.b) - (q.r + q.g + q.b))

\* lines 724-737: diff of a pixel and its diagonal neighbour, in thirds;
\* prevB is read from data[prevIdx + 1], the green channel (line 734)
contrast(img, px, py) ==
    LET p == PixelAt(img, px, py)
        q == PixelAt(img, px - 1, py - 1)
        brightness == p.r + p.g + p.b
        prevR == q.r
        prevG == q.g
        prevB == q.g
        prevBrightness == prevR + prevG + prevB
    IN  Abs(brightness - prevBrightness)

\* lines 722-723, 730: the offsets (bx, by) of the pixels of the block at
\* (x, y) that are compared with their diagonal neighbour
ComparedOffsets(x, y, width, height) ==
    { o \in (1..(BLOCK_SIZE - 1)) \X (1..(BLOCK_SIZE - 1)) :
        x + o[1] < width /\ y + o[2] < height }

\* the sum of v times the number of offsets whose diff is v, for the diffs
\* v of a set
RECURSIVE TotalOf(_, _, _, _, _)
TotalOf(diffs, img, x, y, offsets) ==
    IF diffs = {} THEN 0
    ELSE LET v == CHOOSE d \in diffs : TRUE
         IN  v * Cardinality({ o \in offsets : contrast(img, x + o[1], y + o[2]) = v })
             + TotalOf(diffs \ {v}, img, x, y, offsets)

\* lines 718-742: totalContrast and maxDiff (in thirds) and pixelCount of
\* the block at (x, y), the sum, the count and the maximum of the diffs
\* of the compared pixels
BlockStats(img, x, y, width, height) ==
    LET offsets == ComparedOffsets(x, y, width, height)
        diffs == { contrast(img, x + o[1], y + o[2]) : o \in offsets }
    IN  [totalContrast |-> TotalOf(diffs, img, x, y, offsets),
         pixelCount |-> Cardinality(offsets),
         maxDiff |-> IF diffs = {} THEN 0
                     ELSE CHOOSE m \in diffs : \A d \in diffs : d <= m]

\* line 751: contrastScore > 0.3 || maxDiff > 50, with
\* contrastScore = totalContrast / pixelCount / 255 (lines 744-745)
BlockFlagged(st) ==
    \/ st.pixelCount > 0 /\ 10 * st.totalContrast > 3 * 3 * 255 * st.pixelCount
    \/ st.maxDiff > 3 * 50

\* variant: the confidence without the cap of 0.95
BlockConfidenceUncapped(st) ==
    6120 * BlockPairCount + 10 * st.totalContrast + 6 * st.maxDiff * BlockPairCount

\* line 752: Math.min(0.95, 0.4 + contrastScore * 0.5 + (maxDiff / 255) * 0.3)
\* in units of 1 / ConfidenceDen (every block of the loops is a whole
\* block, so pixelCount is BlockPairCount)
BlockConfidence(st) ==
    Min2(14535 * BlockPairCount,
         6120 * BlockPairCount + 10 * st.totalContrast
            + 6 * st.maxDiff * BlockPairCount)

\* variant: the loops go on to the last whole block of the area
InBlockLoopToEdge(o, size) == o <= size - BLOCK_SIZE

\* lines 716-717: the conditions of the loops, y < height - blockSize and
\* x < width - blockSize
InBlockLoop(o, size) == o < size - BLOCK_SIZE

\* lines 716-763: the blocks of the area in the order of the loops, each
\* with its statistics
RECURSIVE BlocksFrom(_, _, _, _, _)
BlocksFrom(img, width, height, x, y) ==
    IF ~InBlockLoop(y, height) THEN <<>>
    ELSE IF ~InBlockLoop(x, width) THEN BlocksFrom(img, width, height, 0, y + BLOCK_SIZE)
    ELSE << [bx |-> x, by |-> y, stats |-> BlockStats(img, x, y, width, height)] >>
         \o BlocksFrom(img, width, height, x + BLOCK_SIZE, y)

\* lines 751-761: the flagged blocks with their confidence
flaggedBlocks(blocks) ==
    LET hit == SelectSeq(blocks, LAMBDA k : BlockFlagged(k.stats))
    IN  [ i \in 1..Len(hit) |->
            [bx |-> hit[i].bx, by |-> hit[i].by,
             confidence |-> BlockConfidence(hit[i].stats)] ]

\* the vehicle areas that are scanned: one row of blocks
ScanBoxes == { Box(100, 120, n * BLOCK_SIZE + 10, BLOCK_SIZE + 10) : n \in 1..MaxBlockColumns }

\* the whole blocks that the vehicle areas around the limits of the loops
\* reach in each direction
MaxEdgeBlocks == 2

\* vehicle areas whose sides are a whole number of blocks, one pixel more,
\* or (the width) ten pixels less
EdgeBoxes ==
    { Box(100, 120, n * BLOCK_SIZE + d, m * BLOCK_SIZE + e) :
        n \in 1..MaxEdgeBlocks, d \in {-10, 0, 1},
        m \in 1..MaxEdgeBlocks, e \in {0, 1} }

\* pixels that flag every block that is analysed, and pixels that flag none
EdgeImages ==
    { [kind |-> "stripes", a |-> White, b |-> Black],
      [kind |-> "uniform", a |-> Black, b |-> Black] }

\* detectDamageInVehicleArea applied to the pixels of a vehicle area
scanImage ==
    /\ ev.op = "Input" /\ ev.fn = "detectDamageInVehicleArea"
    /\ LET blocks == BlocksFrom(ev.image, ev.box.width, ev.box.height, 0, 0)
           flags == flaggedBlocks(blocks)
       IN  ev' = [op |-> "detectDamageInVehicleArea", image |-> ev.image,
                  box |-> ev.box, blocks |-> blocks, flags |-> flags,
                  regions |-> detectDamageInVehicleArea(flags, ev.box)]
    /\ UNCHANGED << now, summary, alertOpen, component, stopping, uploads,
                    recordings, epoch, scope,
                    recordedChunks, recorderMount, server >>

\* the length of the lists of predictions given to selectVehiclePrediction
MaxPreds == 3

\* two boxes of equal area and a larger one
SelectBoxes == { Box(0, 0, 100, 50), Box(10, 10, 50, 100), Box(0, 0, 200, 100) }

SelectPredictions ==
    UNION { [1..n -> { Pred(c, b) : c \in {"car", "truck", "person"}, b \in SelectBoxes }] :
              n \in 0..MaxPreds }

\* selectVehiclePrediction applied to a list of predictions
selectPrediction ==
    /\ ev.op = "Input" /\ ev.fn = "selectVehiclePrediction"
    /\ ev' = [op |-> "selectVehiclePrediction", preds |-> ev.preds,
              result |-> selectVehiclePrediction(ev.preds)]
    /\ UNCHANGED << now, summary, alertOpen, component, stopping, uploads,
                    recordings, epoch, scope,
                    recordedChunks, recorderMount, server >>

FunctionInputs ==
    { [op |-> "Input", fn |-> "mergeNearbyBoxes", boxes |-> b] : b \in BlockPairs }
    \cup { [op |-> "Input", fn |-> "mergeNearbyBoxes(list)", boxes |-> b] : b \in MergeLists }
    \cup { [op |-> "Input", fn |-> "detectDamageInVehicleArea", image |-> i, box |-> b] :
              i \in Images, b \in ScanBoxes }
    \cup { [op |-> "Input", fn |-> "detectDamageInVehicleArea", image |-> i, box |-> b] :
              i \in EdgeImages, b \in EdgeBoxes }
    \cup { [op |-> "Input", fn |-> "selectVehiclePrediction", preds |-> l] :
              l \in SelectPredictions }

InitFunctions ==
    /\ now = ClockStart
    /\ summary = FALSE
    /\ alertOpen = FALSE
    /\ Mounted
    /\ stopping = {}
    /\ uploads = {}
    /\ recordings = 0
    /\ epoch = 0
    /\ recordedChunks = << <<>> >>
    /\ recorderMount = <<>>
    /\ server = <<>>
    /\ ev \in FunctionInputs
    /\ scope = [advance |-> 0, frames |-> 0, inflight |-> 0, recordings |-> 0,
                preds |-> {}, sizes |-> FrameSizes, loads |-> {},
                delays |-> Delays, blocks |-> {}]

NextFunctions ==
    \/ mergePair
    \/ mergeList
    \/ scanImage
    \/ selectPrediction

SpecFunctions == InitFunctions /\ [][NextFunctions]_vars

(***************************************************************************)
(* C21.  The merge step given two flagged blocks alone: when their centers *)
(* are 59 px apart (closer than 60 px in general) the result is one region,*)
(* the union bounding box with the larger confidence; when they are 61 px  *)
(* apart (60 px or more in general) the result is the two blocks unchanged.*)
(***************************************************************************)
\* the squared distance of the centers of two blocks, times four
CenterDistance4(a, b) ==
    LET dx == (2 * a.x + a.width) - (2 * b.x + b.width)
        dy == (2 * a.y + a.height) - (2 * b.y + b.height)
    IN  dx * dx + dy * dy

C21_MergeBoundary ==
    (ev.op = "mergeNearbyBoxes" /\ Len(ev.boxes) = 2) =>
        LET a == ev.boxes[1]
            b == ev.boxes[2]
            d4 == CenterDistance4(a, b)
            \* b lies right of and below a and has the larger confidence
            one == ev.merged = << [x |-> a.x, y |-> a.y,
                                   width |-> b.x + b.width - a.x,
                                   height |-> b.y + b.height - a.y,
                                   confidence |-> b.confidence] >>
        IN  /\ d4 = 4 * 59 * 59 => one
            /\ d4 = 4 * 61 * 61 => ev.merged = ev.boxes
            /\ d4 < 4 * 60 * 60 => one
            /\ d4 >= 4 * 60 * 60 => ev.merged = ev.boxes

\* the pair 59 px apart has been merged into one region
C21_Witness ==
    /\ ev.op = "mergeNearbyBoxes"
    /\ CenterDistance4(ev.boxes[1], ev.boxes[2]) = 4 * 59 * 59
    /\ Len(ev.merged) = 1

\* the pair 61 px apart has been kept as two regions
C21_WitnessApart ==
    /\ ev.op = "mergeNearbyBoxes"
    /\ CenterDistance4(ev.boxes[1], ev.boxes[2]) = 4 * 61 * 61
    /\ Len(ev.merged) = 2

(***************************************************************************)
(* C22.  The contrast values of a block are the absolute differences of    *)
(* the brightness (mean of R, G, B) of a pixel and of its diagonally       *)
(* adjacent pixel, and the block is flagged exactly when their average     *)
(* over 255 exceeds 0.3 or their maximum exceeds 50; so a block whose      *)
(* pixels all have one colour has average and maximum 0 and is never       *)
(* flagged, whatever the colour.                                           *)
(***************************************************************************)
C22_UniformNeverFlagged ==
    (ev.op = "detectDamageInVehicleArea" /\ ev.image.kind = "uniform") =>
        ev.flags = <<>>

\* the part of C22 that the scan has: a block is flagged exactly when the
\* average of its diffs over 255 exceeds 0.3 or their maximum exceeds 50
C22_FlagRule ==
    ev.op = "detectDamageInVehicleArea" =>
        LET hit == { k \in 1..Len(ev.blocks) :
                        LET st == ev.blocks[k].stats
                        IN  \/ 10 * st.totalContrast > 2295 * st.pixelCount
                            \/ st.maxDiff > 150 }
        IN  /\ Len(ev.flags) = Cardinality(hit)
            /\ \A i \in 1..Len(ev.flags) :
                  \E k \in hit : /\ ev.blocks[k].bx = ev.flags[i].bx
                                 /\ ev.blocks[k].by = ev.flags[i].by

(***************************************************************************)
(* C23.  Every damage region of a scan, before and after merging, has as   *)
(* confidence min(0.95, 0.4 + 0.5 * (average diff / 255) + 0.3 * (maximum  *)
(* diff / 255)) of a flagged block (the largest one among the blocks       *)
(* merged into it), so its confidence lies in [0.4, 0.95]; its label is    *)
(* 'DAMAGE'.                                                               *)
(***************************************************************************)
\* the statistics of the block at offset (bx, by)
StatsAt(blocks, bx, by) ==
    (CHOOSE k \in { blocks[i] : i \in 1..Len(blocks) } : k.bx = bx /\ k.by = by).stats

\* the flagged blocks that lie inside region r of a scan of box
FlagsInside(flags, box, r) ==
    { i \in 1..Len(flags) :
        /\ r.box.x <= box.x + flags[i].bx
        /\ box.x + flags[i].bx + BLOCK_SIZE <= r.box.x + r.box.width
        /\ r.box.y <= box.y + flags[i].by
        /\ box.y + flags[i].by + BLOCK_SIZE <= r.box.y + r.box.height }

C23_Confidence ==
    ev.op = "detectDamageInVehicleArea" =>
        /\ \A i \in 1..Len(ev.flags) :
              LET st == StatsAt(ev.blocks, ev.flags[i].bx, ev.flags[i].by)
                  \* 0.4 + 0.5 * avg / 255 + 0.3 * max / 255 over 7650 * pixelCount
                  sum == 3060 * st.pixelCount + 5 * st.totalContrast
                            + 3 * st.maxDiff * st.pixelCount
                  conf == ev.flags[i].confidence
              IN  /\ st.pixelCount = BlockPairCount
                  /\ IF 2 * sum >= 14535 * st.pixelCount
                     THEN 20 * conf = 19 * ConfidenceDen
                     ELSE conf = 2 * sum
                  /\ 10 * conf >= 4 * ConfidenceDen
                  /\ 20 * conf <= 19 * ConfidenceDen
        /\ \A j \in 1..Len(ev.regions) :
              LET r == ev.regions[j]
                  inside == FlagsInside(ev.flags, ev.box, r)
              IN  /\ r.label = "DAMAGE"
                  /\ inside # {}
                  /\ \E i \in inside : r.confidence = ev.flags[i].confidence
                  /\ \A i \in inside : r.confidence >= ev.flags[i].confidence
                  /\ 10 * r.confidence >= 4 * ConfidenceDen
                  /\ 20 * r.confidence <= 19 * ConfidenceDen

\* a scan has merged two flagged blocks of different confidence, one of them
\* capped at 0.95, into one region
C23_Witness ==
    /\ ev.op = "detectDamageInVehicleArea"
    /\ Len(ev.flags) = 2
    /\ Len(ev.regions) = 1
    /\ ev.flags[1].confidence # ev.flags[2].confidence
    /\ \E i \in 1..2 : 20 * ev.flags[i].confidence = 19 * ConfidenceDen

(***************************************************************************)
(* C24.  The damage scan runs on a tick exactly when the tick reports a    *)
(* vehicle box and the frame counter is a multiple of three detection      *)
(* intervals (18 in preview, 9 while recording); it flags only blocks      *)
(* inside the reported box, and its regions lie inside that box.  On every *)
(* other tick the scan is not invoked: the tick keeps the damage           *)
(* detections or discards them, and never stores new ones.                 *)
(***************************************************************************)
C24_ScanSchedule ==
    [][ev'.op = "Tick" =>
          /\ ev'.scanned <=>
                /\ vehicleBox' # NoBox
                /\ frameCounter' % (IF isRecording THEN 9 ELSE 18) = 0
          /\ (ev'.scanned /\ ~ev'.threw) =>
                /\ \A i \in 1..Len(ev'.flags) :
                      /\ ev'.flags[i].bx >= 0 /\ ev'.flags[i].by >= 0
                      /\ ev'.flags[i].bx + BLOCK_SIZE <= vehicleBox'.width
                      /\ ev'.flags[i].by + BLOCK_SIZE <= vehicleBox'.height
                /\ \A j \in 1..Len(ev'.regions) :
                      LET r == ev'.regions[j].box
                      IN  /\ vehicleBox'.x <= r.x
                          /\ r.x + r.width <= vehicleBox'.x + vehicleBox'.width
                          /\ vehicleBox'.y <= r.y
                          /\ r.y + r.height <= vehicleBox'.y + vehicleBox'.height
          /\ ~ev'.scanned =>
                /\ ev'.flags = <<>>
                /\ damageDetections' \in {damageDetections, <<>>}
      ]_vars

\* a recording tick at frame 9 has scanned the reported box and stored a
\* region
C24_Witness ==
    /\ ev.op = "Tick" /\ ev.scanned /\ ~ev.threw
    /\ isRecording /\ frameCounter = 9
    /\ damageDetections # <<>>

\* a preview tick at frame 18 has scanned, the tick at frame 9 has not
C24_WitnessPreview ==
    /\ ev.op = "Tick" /\ ev.scanned /\ ~isRecording /\ frameCounter = 18

(***************************************************************************)
(* C25.  selectVehiclePrediction returns nothing exactly when no           *)
(* prediction of the list has an allowed class; otherwise it returns the   *)
(* allowed-class prediction of largest area, and among predictions of      *)
(* equal largest area the one that comes first in the list.                *)
(***************************************************************************)
C25_LargestFirst ==
    ev.op = "selectVehiclePrediction" =>
        LET preds == ev.preds
            allowed == { i \in 1..Len(preds) :
                            preds[i].class \in {"car", "truck", "bus", "motorcycle"} }
            area(i) == preds[i].bbox.width * preds[i].bbox.height
        IN  /\ ev.result = NoBox <=> allowed = {}
            /\ allowed # {} =>
                  \E i \in allowed :
                      /\ ev.result = preds[i].bbox
                      /\ \A j \in allowed :
                            \/ area(j) < area(i)
                            \/ area(j) = area(i) /\ j >= i

\* a list in which a person has the largest box and two vehicles of equal
\* area follow: the first of the two has been returned
C25_Witness ==
    /\ ev.op = "selectVehiclePrediction"
    /\ Len(ev.preds) = 3
    /\ ev.preds[1].class = "person" /\ ev.preds[1].bbox = Box(0, 0, 200, 100)
    /\ ev.preds[2] = Pred("truck", Box(10, 10, 50, 100))
    /\ ev.preds[3] = Pred("car", Box(0, 0, 100, 50))
    /\ ev.result = Box(10, 10, 50, 100)

(***************************************************************************)
(* C26.  While the detector has not finished initializing, every tick on a *)
(* frame of non-zero size reports the fallback box (x = 10 % of the width, *)
(* width = 80 % of the width, y = 20 % of the height, height = 60 % of the *)
(* height), for every frame size, so no such tick reports no_vehicle.      *)
(***************************************************************************)
\* the fallback box of a frame (sizes are multiples of ten)
FallbackOf(frame) ==
    Box(frame.width \div 10, frame.height \div 5,
        (8 * frame.width) \div 10, (6 * frame.height) \div 10)

C26_FallbackDuringWarmUp ==
    [][ ( /\ ev'.op = "Tick"
          /\ modelState # "loaded"
          /\ canvas.width > 0 /\ canvas.height > 0 ) =>
            /\ vehicleBox' = FallbackOf(canvas)
            /\ distanceStatus' # "no_vehicle"
            /\ vehicleDetected' ]_vars

\* the part of C26 that the tick has: the candidate is the fallback box, and
\* it is reported on every frame on which it is not taller than wide
C26_FallbackUnlessTall ==
    [][ ( /\ ev'.op = "Tick"
          /\ modelState # "loaded" ) =>
            /\ ev'.candidate = FallbackOf(canvas)
            /\ ~ev'.issued
            /\ (8 * canvas.width >= 6 * canvas.height) =>
                  /\ vehicleBox' = FallbackOf(canvas)
                  /\ distanceStatus' # "no_vehicle" ]_vars

(***************************************************************************)
(* C27.  When the capture device fails to start after the user has asked   *)
(* for the camera, the session is in Idle afterwards: the transition from  *)
(* Idle to Previewing does not take effect.                                *)
(***************************************************************************)
C27_CameraFailureIdle ==
    camera = "failed" => SessionState = "Idle"

\* what the component does: the failure changes nothing but the outcome of
\* getUserMedia; the camera view stays on screen with no frames and no ticks
C27_FailureOnlyLogged ==
    [][ ev'.op = "CameraFailed" =>
          /\ hasStarted /\ hasStarted'
          /\ ~alertOpen'
          /\ SessionState' = SessionState ]_vars

C28_WitnessNewStop ==
    /\ ev.op = "onstop"
    /\ recordings = 2 /\ uploads = {2} /\ ~summary

(***************************************************************************)
(* C29.  A detector result whose entries lack the class or the bbox is     *)
(* handled like a result without a vehicle: the completion callback does   *)
(* not raise, and the cache follows the miss rule (the box is cleared when *)
(* the request was made more than 1000 ms after the last detection time,   *)
(* and kept otherwise; the time is kept).                                  *)
(***************************************************************************)
C29_MalformedIsMiss ==
    [][ ( /\ ev'.op \in {"Hit", "Miss", "Raise"}
          /\ ev'.malformed ) =>
            /\ ev'.op = "Miss"
            /\ lastDetectionTime' = lastDetectionTime
            /\ lastDetectionBox' = IF ev'.d.at - lastDetectionTime > 1000
                                   THEN NoBox
                                   ELSE lastDetectionBox ]_vars

\* the part of C29 that the callback has: entries without a class are a
\* miss, whatever else they lack
C29_MissingClassIsMiss ==
    [][ ( /\ ev'.op \in {"Hit", "Miss", "Raise"}
          /\ ev'.malformed
          /\ ev'.sel = NoBox ) =>
            /\ ev'.op = "Miss"
            /\ lastDetectionTime' = lastDetectionTime
            /\ lastDetectionBox' = IF ev'.d.at - lastDetectionTime > 1000
                                   THEN NoBox
                                   ELSE lastDetectionBox ]_vars

\* the callback has raised on a result that came more than 1000 ms after
\* the last detection, and the cached box is still there
C29_RaisedAndKept ==
    /\ ev.op = "Raise"
    /\ ev.d.at - lastDetectionTime > 1000
    /\ lastDetectionBox # NoBox

C31_EmptyTrackAtStart ==
    [][ (SessionState = "Idle" /\ SessionState' = "Previewing") =>
          /\ ev'.op = "beginInspection"
          /\ lastDetectionBox' = NoBox
          /\ lastDetectionTime' = 0
          /\ lastVehicleCenter' = NoCenter
          /\ damageDetections' = <<>>
          /\ ~vehicleDetected' ]_vars

\* the camera has been started again after a recording was uploaded and the
\* summary was left by its restart button
C31_Witness ==
    /\ ev.op = "beginInspection"
    /\ recordings >= 1
    /\ SessionState = "Previewing"
    /\ lastDetectionBox = NoBox /\ lastDetectionTime = 0
    /\ lastVehicleCenter = NoCenter /\ damageDetections = <<>>
    /\ ~vehicleDetected

\* a failed upload does not lead to Idle: the alert is dismissed into the
\* view that was on screen, whose track state is what it was
C31_FailedKeepsTrack ==
    [][ ev'.op = "AlertDismiss" =>
          /\ hasStarted' = hasStarted
          /\ lastDetectionBox' = lastDetectionBox
          /\ lastVehicleCenter' = lastVehicleCenter
          /\ damageDetections' = damageDetections ]_vars


(***************************************************************************)
(* C32: for every recording, the stop event hands one blob to the upload,  *)
(* built from exactly the chunks of that recording; starting a new         *)
(* recording before the stop event fires cannot add, remove or replace     *)
(* chunks of the blob.  A chunk is named after the recorder that captured  *)
(* it, so the blob of recorder r is << r >>.                               *)
(***************************************************************************)
C32_BlobOfOwnChunks ==
    [][ ev'.op = "onstop" =>
          /\ ev'.blob = << ev'.r >>
          /\ uploads' = uploads \cup { ev'.r }
          /\ ev'.r \notin uploads ]_vars

\* The blob is the recording's own whenever no recording was started
\* between an earlier stop and its stop event.
C32_OwnChunksWithoutOverlap ==
    [][ (ev'.op = "onstop" /\ ChunksOfSharedArray(ev'.r) = <<>>) =>
          ev'.blob = << ev'.r >> ]_vars

\* A second recording was started before the first one's stop event: its
\* blob carries the first recording's chunk as well.
C32_ForeignChunk ==
    /\ ev.op = "onstop"
    /\ ev.r = 2
    /\ ev.blob = << 1, 2 >>


(***************************************************************************)
(* C33: once a tick of a recording has gated the cached box as stale (more *)
(* than 1500 ms after the last successful detection), no later tick        *)
(* reports that box as the vehicle box unless a detection has succeeded in *)
(* between; stopping and starting a recording does not make it reportable. *)
(***************************************************************************)
C33_StaleStaysGated ==
    [][ (ev'.op = "Tick" /\ staleGated /\ lastDetectionBox # NoBox) =>
          vehicleBox' # lastDetectionBox ]_vars

\* The same for the ticks of a recording only.
C33_StaleStaysGatedWhileRecording ==
    [][ (ev'.op = "Tick" /\ isRecording /\ staleGated /\ lastDetectionBox # NoBox) =>
          vehicleBox' # lastDetectionBox ]_vars

\* The gate itself: a tick of a recording reports no box whose detection
\* time is more than 1500 ms ago.
C33_GateAtReadTime ==
    [][ (ev'.op = "Tick" /\ isRecording /\ modelState = "loaded"
         /\ lastDetectionTime > 0 /\ now - lastDetectionTime > STALE_GATE_MS) =>
          vehicleBox' = NoBox ]_vars

\* A tick of a second recording reports the box that the first recording
\* had gated as stale.
C33_ReportedAgain ==
    /\ ev.op = "Tick"
    /\ isRecording
    /\ recordings = 2
    /\ staleGated
    /\ vehicleBox = lastDetectionBox
    /\ vehicleBox # NoBox


C33_ReportedAgainAfterFailure ==
    /\ C33_ReportedAgain
    /\ stopping = {}
    /\ uploads = {}
    /\ mediaRecorder = 2


(***************************************************************************)
(* C34: after every tick the vehicle-detected flag is true iff the         *)
(* distance status is one of too_close, too_far and ok, and false iff it   *)
(* is no_vehicle; a tick writes the two together, and no other operation   *)
(* sets the flag to true.                                                  *)
(***************************************************************************)
Zones == {"too_close", "too_far", "ok"}

C34_FlagMatchesStatus ==
    [][ /\ ev'.op = "Tick" =>
              /\ vehicleDetected' <=> distanceStatus' \in Zones
              /\ ~vehicleDetected' <=> distanceStatus' = "no_vehicle"
        /\ (vehicleDetected' /\ ~vehicleDetected) => ev'.op = "Tick"
        /\ (distanceStatus' \in Zones /\ distanceStatus \notin Zones) => ev'.op = "Tick" ]_vars

\* A tick turns the flag and the status from no vehicle to a zone, and
\* (C34_WitnessLost) back.
C34_Witness ==
    /\ ev.op = "Tick"
    /\ ev.prev = NoCenter
    /\ vehicleDetected
    /\ distanceStatus \in Zones

C34_WitnessLost ==
    /\ ev.op = "Tick"
    /\ ev.prev # NoCenter
    /\ ~vehicleDetected
    /\ distanceStatus = "no_vehicle"

\* The two agree in every state, not only after ticks.
C34_AgreeAlways == vehicleDetected <=> distanceStatus \in Zones


(***************************************************************************)
(* C35: the candidate of a detection is chosen by area alone and the       *)
(* aspect rejection is applied to the chosen box when a tick reads it:     *)
(* when the largest candidate of an allowed class is taller than wide, the *)
(* completion writes that box to the cache with the time of its request,   *)
(* and ticks that read it report no vehicle, even if the detection held    *)
(* another candidate of an allowed class that is at least as wide as tall. *)
(***************************************************************************)
AllowedAt(preds) == { i \in 1..Len(preds) : preds[i].class \in AllowedClasses }

\* the first among the largest candidates of an allowed class
LargestAllowed(preds) ==
    LET v == AllowedAt(preds)
    IN  IF v = {} THEN NoBox
        ELSE preds[CHOOSE i \in v : \A j \in v :
                      \/ Area(preds[i].bbox) > Area(preds[j].bbox)
                      \/ Area(preds[i].bbox) = Area(preds[j].bbox) /\ i <= j].bbox

WideCandidate(preds) ==
    \E i \in AllowedAt(preds) : ~PersonLike(preds[i].bbox)

C35_TallLargestIsCached ==
    [][ /\ ( /\ ev'.op \in {"Hit", "Miss"}
             /\ LargestAllowed(ev'.preds) # NoBox
             /\ PersonLike(LargestAllowed(ev'.preds)) ) =>
              /\ ev'.op = "Hit"
              /\ lastDetectionBox' = LargestAllowed(ev'.preds)
              /\ lastDetectionTime' = ev'.d.at
        /\ ( /\ ev'.op = "Tick"
             /\ modelState = "loaded"
             /\ lastDetectionBox # NoBox
             /\ PersonLike(lastDetectionBox) ) =>
              /\ vehicleBox' = NoBox
              /\ distanceStatus' = "no_vehicle"
              /\ ~vehicleDetected' ]_vars

\* A detection with a wide car and a larger, tall bus has cached the bus.
C35_Witness ==
    /\ ev.op = "Hit"
    /\ WideCandidate(ev.preds)
    /\ PersonLike(ev.sel)
    /\ lastDetectionBox = ev.sel
    /\ lastDetectionTime = ev.d.at

\* A tick has read the cached bus and reports no vehicle, the cache being
\* as fresh as the last request.
C35_WitnessTick ==
    /\ ev.op = "Tick"
    /\ ev.candidate = BigTallBox
    /\ lastDetectionBox = BigTallBox
    /\ lastDetectionTime = now
    /\ vehicleBox = NoBox
    /\ distanceStatus = "no_vehicle"


(***************************************************************************)
(* C36: every damage region stored by a scan lies entirely inside the      *)
(* vehicle box passed to that scan: each flagged block is a full 40 x 40   *)
(* block inside the box, and merging only produces union bounding boxes of *)
(* such blocks.                                                            *)
(***************************************************************************)
Inside(a, b) ==
    /\ b.x <= a.x /\ a.x + a.width <= b.x + b.width
    /\ b.y <= a.y /\ a.y + a.height <= b.y + b.height

\* the bounding box of the areas with the indices in S
BoundingBox(areas, S) ==
    LET minX == CHOOSE v \in { areas[i].x : i \in S } : \A i \in S : v <= areas[i].x
        minY == CHOOSE v \in { areas[i].y : i \in S } : \A i \in S : v <= areas[i].y
        maxX == CHOOSE v \in { areas[i].x + areas[i].width : i \in S } :
                    \A i \in S : v >= areas[i].x + areas[i].width
        maxY == CHOOSE v \in { areas[i].y + areas[i].height : i \in S } :
                    \A i \in S : v >= areas[i].y + areas[i].height
    IN  Box(minX, minY, maxX - minX, maxY - minY)

C36_RegionsInsideBox ==
    ev.op = "detectDamageInVehicleArea" =>
        LET areas == DamageAreas(ev.flags, ev.box)
        IN  /\ \A i \in 1..Len(areas) :
                  /\ areas[i].width = BLOCK_SIZE
                  /\ areas[i].height = BLOCK_SIZE
                  /\ Inside(areas[i], ev.box)
            /\ \A j \in 1..Len(ev.regions) :
                  /\ Inside(ev.regions[j].box, ev.box)
                  /\ \E S \in SUBSET (1..Len(areas)) :
                        /\ S # {}
                        /\ ev.regions[j].box = BoundingBox(areas, S)

\* A scan has merged several flagged blocks into a region that is larger
\* than a block and smaller than the vehicle box.
C36_Witness ==
    /\ ev.op = "detectDamageInVehicleArea"
    /\ Len(ev.flags) >= 2
    /\ Len(ev.regions) = 1
    /\ ev.regions[1].box.width = 2 * BLOCK_SIZE
    /\ ev.regions[1].box.width < ev.box.width

(***************************************************************************)
(* C37: the scan analyses only the blocks whose origins x, y are multiples *)
(* of 40 with x < width - 40 and y < height - 40: a vehicle area whose     *)
(* width or height is at most 40 px yields no region, and the pixels with  *)
(* x >= 40 * floor((width - 41) / 40) + 40 (and likewise y) are never      *)
(* analysed or flagged.                                                    *)
(***************************************************************************)
\* the end of the analysed part of a side of the given size
AnalysedLimit(size) == BLOCK_SIZE * ((size - (BLOCK_SIZE + 1)) \div BLOCK_SIZE) + BLOCK_SIZE

C37_BlockLoopBounds ==
    ev.op = "detectDamageInVehicleArea" =>
        LET w == ev.box.width
            h == ev.box.height
            origins == { << ev.blocks[k].bx, ev.blocks[k].by >> : k \in 1..Len(ev.blocks) }
        IN  /\ origins = { o \in (0..w) \X (0..h) :
                              /\ o[1] % BLOCK_SIZE = 0 /\ o[1] < w - BLOCK_SIZE
                              /\ o[2] % BLOCK_SIZE = 0 /\ o[2] < h - BLOCK_SIZE }
            /\ Cardinality(origins) = Len(ev.blocks)
            /\ (w <= BLOCK_SIZE \/ h <= BLOCK_SIZE) =>
                  ev.blocks = <<>> /\ ev.flags = <<>> /\ ev.regions = <<>>
            /\ \A o \in origins :
                  /\ o[1] + BLOCK_SIZE <= AnalysedLimit(w)
                  /\ o[2] + BLOCK_SIZE <= AnalysedLimit(h)
            /\ origins # {} =>
                  \E o \in origins : /\ o[1] + BLOCK_SIZE = AnalysedLimit(w)
                                     /\ o[2] + BLOCK_SIZE = AnalysedLimit(h)
            /\ \A i \in 1..Len(ev.flags) :
                  << ev.flags[i].bx, ev.flags[i].by >> \in origins
            /\ \A j \in 1..Len(ev.regions) :
                  LET r == ev.regions[j].box
                  IN  /\ r.x + r.width <= ev.box.x + AnalysedLimit(w)
                      /\ r.y + r.height <= ev.box.y + AnalysedLimit(h)

\* An area of two by two whole blocks whose pixels flag every analysed
\* block: only the first block is analysed and flagged.
C37_Witness ==
    /\ ev.op = "detectDamageInVehicleArea"
    /\ ev.box.width = 2 * BLOCK_SIZE
    /\ ev.box.height = 2 * BLOCK_SIZE
    /\ Len(ev.blocks) = 1
    /\ Len(ev.flags) = 1
    /\ ev.regions[1].box = Box(ev.box.x, ev.box.y, BLOCK_SIZE, BLOCK_SIZE)

\* An area one block wide yields nothing, whatever its pixels.
C37_WitnessNarrow ==
    /\ ev.op = "detectDamageInVehicleArea"
    /\ ev.image.kind = "stripes"
    /\ ev.box.width = BLOCK_SIZE
    /\ ev.box.height > BLOCK_SIZE
    /\ ev.regions = <<>>


(***************************************************************************)
(* C38: mergeNearbyBoxes conserves its input: every input block belongs to *)
(* exactly one output region (each input index is consumed once), a        *)
(* non-empty input gives at least one region and at most as many as there  *)
(* are inputs, the largest confidence of the output is the largest of the  *)
(* input, and an empty input gives an empty output.                        *)
(***************************************************************************)
MaxConfidence(boxes, S) ==
    CHOOSE c \in { boxes[i].confidence : i \in S } : \A i \in S : c >= boxes[i].confidence

C38_MergeConserves ==
    ev.op = "mergeNearbyBoxes(list)" =>
        LET in == ev.boxes
            out == ev.merged
        IN  /\ in = <<>> => out = <<>>
            /\ in # <<>> =>
                  /\ 1 <= Len(out) /\ Len(out) <= Len(in)
                  /\ MaxConfidence(out, 1..Len(out)) = MaxConfidence(in, 1..Len(in))
            /\ \E region \in [1..Len(in) -> 1..Len(out)] :
                  \A k \in 1..Len(out) :
                      LET S == { i \in 1..Len(in) : region[i] = k }
                      IN  /\ S # {}
                          /\ Box(out[k].x, out[k].y, out[k].width, out[k].height)
                                = BoundingBox(in, S)
                          /\ out[k].confidence = MaxConfidence(in, S)

\* Three blocks have become two regions: the first two merged, the third,
\* which has the largest confidence, kept.
C38_Witness ==
    /\ ev.op = "mergeNearbyBoxes(list)"
    /\ Len(ev.boxes) = 3
    /\ Len(ev.merged) = 2
    /\ ev.merged[1].width = 2 * BLOCK_SIZE
    /\ ev.merged[2] = ev.boxes[3]
    /\ ev.merged[2].confidence > ev.merged[1].confidence

\* The empty list gives the empty list.
C38_WitnessEmpty ==
    /\ ev.op = "mergeNearbyBoxes(list)"
    /\ ev.boxes = <<>>
    /\ ev.merged = <<>>


(***************************************************************************)
(* C39: every upload request eventually ends the uploading state: for      *)
(* every POST /api/process-video the server eventually sends exactly one   *)
(* HTTP response, also when the storage upload or the analysis fails (an   *)
(* error response), so the client reaches the success or the failure       *)
(* outcome and never stays uploading forever.                              *)
(***************************************************************************)
Responses(r) == IF r \in DOMAIN server THEN server[r].responses ELSE <<>>

At(r) == IF r \in DOMAIN server THEN server[r].at ELSE "none"

C39_EveryPostAnswered ==
    \A r \in 1..ServerRecordings :
        (r \in uploads) ~> (r \notin uploads /\ Len(Responses(r)) = 1)

\* The client alone: no blob stays in its upload forever.
C39_UploadingEnds ==
    \A r \in 1..ServerRecordings : (r \in uploads) ~> (r \notin uploads)

\* No request is answered twice.
C39_AtMostOneResponse ==
    \A r \in DOMAIN server : Len(server[r].responses) <= 1

\* Every request is answered once unless its promise was rejected and the
\* rejection was not turned into a response.
C39_AnsweredUnlessRejectionLost ==
    \A r \in 1..ServerRecordings :
        (r \in DOMAIN server) ~>
            (Len(Responses(r)) = 1 \/ At(r) \in {"exit", "ignored"})

\* The storage has failed, nothing was sent and nothing will be: the client
\* is still uploading.
C39_NoResponse ==
    /\ 1 \in uploads
    /\ isAnalyzing
    /\ 1 \in DOMAIN server
    /\ server[1].at = "ignored"
    /\ server[1].responses = <<>>

====
